---- MODULE Spec2Model ----
(***************************************************************************)
(* Model of the BOM cost estimator (utils/cost_estimator.py), of the       *)
(* datasheet parser (tools/datasheet_parser.py) and of the compliance      *)
(* checker (utils/compliance_checker.py) of EE-RI-Bot.                     *)
(*                                                                         *)
(* Numbers.  Python floats that carry money are modelled as exact decimal  *)
(* fixed-point integers counting 10^-7 currency units (8.50 is 85000000).  *)
(* A discount factor is an integer number of hundredths (0.75 is 75).      *)
(* round(x, n) is exact except on a decimal tie (x exactly half-way        *)
(* between two n-digit decimals): there the binary value of the float lies *)
(* on either side of the tie, so both neighbours are possible outcomes.    *)
(***************************************************************************)
EXTENDS Integers, Sequences, FiniteSets, TLC

\* ------------------------------------------------------------------ bounds
MaxLines == 3        \* longest BOM passed to estimate_bom_cost
MaxAlts == 3         \* most alternatives passed to compare_alternatives
MaxAltLines == 1     \* longest BOM inside one alternative
Window == 10         \* volumes within Window of a threshold are drawn
MaxTextLen == 4      \* longest text drawn over SpecAlphabet
MaxRepeat == 7       \* most repetitions of a token in a text
MaxFeatureRepeat == 16 \* most repetitions of the first line of a text
MaxFeatureTail == 2  \* most repetitions of the second line of a text
MaxThreads == 2      \* callers that share one instance of each class
MaxMarkets == 2      \* longest list of target markets drawn freely
MaxComponents == 3   \* longest list passed to check_availability
MaxClock == 2        \* latest reading of the clock
MaxPatents == 2      \* most patents in one response of the patent service
MaxIdTokens == 2     \* most fragments a drawn component id is made of
MaxChunks == 2       \* most chunks the answer is streamed in
MaxSessions == 3     \* sessions handed out by get_session
MaxCallers == 2      \* callers of the cache operations that run at once
MaxCacheCalls == 2   \* calls of the cache operations in one behaviour
MaxPdfPages == 11    \* most pages of a datasheet

\* --------------------------------------------------------------- numbers
RoundDigits4 == 4
RoundDigits2 == 2

Pow10(n) == IF n = 0 THEN 1
            ELSE IF n = 1 THEN 10
            ELSE IF n = 2 THEN 100
            ELSE IF n = 3 THEN 1000
            ELSE IF n = 4 THEN 10000
            ELSE IF n = 5 THEN 100000
            ELSE IF n = 6 THEN 1000000
            ELSE 10000000

\* round(x, ndigits): the set of values the call can return.
Round(x, ndigits) ==
    LET step == Pow10(7 - ndigits)
        lo   == (x \div step) * step
        rem  == x - lo
    IN  IF 2 * rem < step THEN {lo}
        ELSE IF 2 * rem > step THEN {lo + step}
        ELSE {lo, lo + step}

\* float * float where the right operand is a factor in hundredths.
\* Every price drawn below is a multiple of 100, so the product is exact.
MulFactor(x, factor) == (x \div 100) * factor

\* ------------------------------------------------------- cost estimator
\* self.volume_discounts
volume_discounts == (100 :> 100) @@ (1000 :> 75) @@ (10000 :> 55) @@ (100000 :> 40)

Max(S) == CHOOSE m \in S : \A y \in S : y <= m

RECURSIVE SortedReverse(_)
\* sorted(keys, reverse=True)
SortedReverse(S) ==
    IF S = {} THEN <<>>
    ELSE <<Max(S)>> \o SortedReverse(S \ {Max(S)})

RECURSIVE FirstThreshold(_, _)
FirstThreshold(ts, v) ==
    IF ts = <<>> THEN 100
    ELSE IF v >= Head(ts) THEN volume_discounts[Head(ts)]
    ELSE FirstThreshold(Tail(ts), v)

\* a slip in the comparison: the threshold itself does not qualify
GetVolumeDiscountStrict(v) ==
    LET RECURSIVE F(_)
        F(ts) == IF ts = <<>> THEN 100
                 ELSE IF v > Head(ts) THEN volume_discounts[Head(ts)]
                 ELSE F(Tail(ts))
    IN  F(SortedReverse(DOMAIN volume_discounts))

\* CostEstimator._get_volume_discount
GetVolumeDiscount(v) ==
    FirstThreshold(SortedReverse(DOMAIN volume_discounts), v)

RECURSIVE FirstThresholdIn(_, _, _)
FirstThresholdIn(table, ts, v) ==
    IF ts = <<>> THEN 100
    ELSE IF v >= Head(ts) THEN table[Head(ts)]
    ELSE FirstThresholdIn(table, Tail(ts), v)

\* CostEstimator._get_volume_discount reading the table of the instance
GetVolumeDiscountIn(table, v) ==
    FirstThresholdIn(table, SortedReverse(DOMAIN table), v)

\* a lookup that answers 0 for a missing key, whatever the default
GetZeroForMissing(d, key, default) == IF key \in DOMAIN d THEN d[key] ELSE 0

\* dict.get(key, default)
Get(d, key, default) == IF key \in DOMAIN d THEN d[key] ELSE default

None == [none |-> TRUE]

\* v is None.  Values of different kinds are told apart by their printed
\* form.
IsNone(v) == ToString(v) = ToString(None)

\* a validation that turns negative numbers away
CanMultiplyNonNegative(v) == IF IsNone(v) THEN FALSE ELSE v >= 0

\* lines 42-43: the operand of * is a number; None * float raises TypeError
CanMultiply(v) == ~IsNone(v)

\* ----------------------------------------------------------------- inputs
Catalog ==
    { [part_number |-> "STM32H743", unit_price |-> 85000000, quantity |-> 1],
      [part_number |-> "nRF52840",  unit_price |-> 32000000, quantity |-> 2],
      [part_number |-> "R0805",     unit_price |-> 16600,    quantity |-> 1],
      [part_number |-> "CREDIT",    unit_price |-> -15000000, quantity |-> 3],
      [part_number |-> "DNP",       unit_price |-> 20000000, quantity |-> 0],
      [part_number |-> "RETURN",    unit_price |-> 45000000, quantity |-> -1],
      [unit_price |-> 12500000] }

AltCatalog ==
    { [part_number |-> "STM32H743", unit_price |-> 85000000, quantity |-> 1],
      [part_number |-> "CREDIT",    unit_price |-> -15000000, quantity |-> 3] }

SeqsUpTo(S, n) == UNION { [1..k -> S] : k \in 0..n }

\* a line whose price was never filled in: its unit_price is None
UntypedLine == [part_number |-> "TBD", unit_price |-> None]
UntypedBoms ==
    { <<UntypedLine>>,
      << [part_number |-> "STM32H743", unit_price |-> 85000000, quantity |-> 1],
         UntypedLine >> }

\* lines given without one, two or all of their fields
SparseBoms ==
    { << [part_number |-> "NOPRICE", quantity |-> 2],
         [part_number |-> "NOQTY", unit_price |-> 12500000],
         [unit_price |-> 32000000, quantity |-> 2] >>,
      << [part_number |-> "BARE"] >>,
      << [quantity |-> 4], [part_number |-> "NOPRICE", quantity |-> 2] >> }

Thresholds == DOMAIN volume_discounts
Volumes == {-5, 0, 100, 1000, 10000, 100000}
Regions == {"EU", "eu", "US"}
WindowVolumes ==
    {50} \cup UNION { (t - Window)..(t + Window) : t \in Thresholds \cup {0} }
CmpVolumes == {50, 1000, 100000}
\* alternative1 of test_compare_alternatives
TestAlternative ==
    << [part_number |-> "STM32H743",   unit_price |-> 85000000, quantity |-> 1],
       [part_number |-> "Component_A", unit_price |-> 20000000, quantity |-> 1] >>
AltBoms == SeqsUpTo(AltCatalog, MaxAltLines) \cup {TestAlternative}
UntypedAlternatives == { << TestAlternative, <<UntypedLine>> >> }

\* ====================================================== datasheet parser
\* A text is a sequence of characters; a character is a one-character string,
\* or the name of a character outside ASCII (MICRO_SIGN is U+00B5,
\* DEGREE_SIGN U+00B0, BULLET U+2022, BLACK_CIRCLE U+25CF, WHITE_BULLET
\* U+25E6).

UpperCase == <<"A", "B", "C", "D", "E", "F", "G", "H", "I", "J", "K", "L", "M",
               "N", "O", "P", "Q", "R", "S", "T", "U", "V", "W", "X", "Y", "Z">>
LowerCase == <<"a", "b", "c", "d", "e", "f", "g", "h", "i", "j", "k", "l", "m",
               "n", "o", "p", "q", "r", "s", "t", "u", "v", "w", "x", "y", "z">>

\* str.lower() of one character
LowerChar(c) ==
    IF \E k \in 1..26 : UpperCase[k] = c
    THEN LowerCase[CHOOSE k \in 1..26 : UpperCase[k] = c]
    ELSE c

\* str.lower()
Lower(text) == [k \in 1..Len(text) |-> LowerChar(text[k])]

Digits == {"0", "1", "2", "3", "4", "5", "6", "7", "8", "9"}
Whitespace == {" ", "\t", "\n", "\r"}

\* ----- regular expressions: the pattern language of re, as a syntax tree
Lit(c) == [op |-> "set", chars |-> {LowerChar(c)}]
AnyOf(S) == [op |-> "set", chars |-> S]
Cat(parts) == [op |-> "seq", parts |-> parts]
Alt(parts) == [op |-> "alt", parts |-> parts]
Opt(r) == [op |-> "opt", r |-> r]
Star(r) == [op |-> "star", r |-> r]
Plus(r) == [op |-> "seq", parts |-> <<r, [op |-> "star", r |-> r]>>]
Word(w) == [op |-> "seq", parts |-> [k \in 1..Len(w) |-> Lit(w[k])]]

\* (\d+\.?\d*) and (-?\d+\.?\d*)
NumberGroup == Cat(<<Plus(AnyOf(Digits)), Opt(Lit(".")), Star(AnyOf(Digits))>>)
SignedNumberGroup == Cat(<<Opt(Lit("-")), NumberGroup>>)
Spaces == Star(AnyOf(Whitespace))

\* self.spec_patterns, in insertion order; group is the capture group 1,
\* rest what follows it
SpecTypes == <<"voltage", "current", "frequency", "temperature", "power",
               "efficiency">>
spec_patterns ==
    [voltage |->
        [group |-> NumberGroup,
         rest |-> Cat(<<Spaces, Lit("V"), Opt(Cat(<<Word(<<"o", "l", "t">>), Opt(Lit("s"))>>))>>)],
     current |->
        [group |-> NumberGroup,
         rest |-> Cat(<<Spaces, Opt(Alt(<<Lit("m"), Lit("MICRO_SIGN")>>)), Lit("A"),
                        Opt(Cat(<<Word(<<"m", "p">>), Opt(Lit("s"))>>))>>)],
     frequency |->
        [group |-> NumberGroup,
         rest |-> Cat(<<Spaces, Opt(Alt(<<Lit("k"), Lit("M"), Lit("G")>>)),
                        Word(<<"H", "z">>)>>)],
     temperature |->
        [group |-> SignedNumberGroup,
         rest |-> Cat(<<Spaces, Opt(Lit("DEGREE_SIGN")), Lit("C")>>)],
     power |->
        [group |-> NumberGroup,
         rest |-> Cat(<<Spaces, Opt(Alt(<<Lit("m"), Lit("MICRO_SIGN")>>)), Lit("W"),
                        Opt(Cat(<<Word(<<"a", "t", "t">>), Opt(Lit("s"))>>))>>)],
     efficiency |->
        [group |-> NumberGroup,
         rest |-> Cat(<<Spaces, Lit("%"), Spaces,
                        Alt(<<Word(<<"e", "f", "f", "i", "c", "i", "e", "n", "c", "y">>),
                              Word(<<"e", "f", "f", ".">>)>>)>>)]]

\* ----- the matcher: Ends(r, text, i) lists, in the order the backtracking
\* matcher tries them, the positions just behind a match of r that starts at
\* position i; with re.IGNORECASE a character matches by its lower case.
RECURSIVE Ends(_, _, _)
RECURSIVE EndsSeq(_, _, _)
RECURSIVE EndsAlt(_, _, _)
RECURSIVE EndsEach(_, _, _)
RECURSIVE EndsStarEach(_, _, _, _)

Ends(r, text, i) ==
    IF r.op = "set"
    THEN IF i <= Len(text) /\ LowerChar(text[i]) \in r.chars THEN <<i + 1>> ELSE <<>>
    ELSE IF r.op = "seq" THEN EndsSeq(r.parts, text, i)
    ELSE IF r.op = "alt" THEN EndsAlt(r.parts, text, i)
    ELSE IF r.op = "opt" THEN Ends(r.r, text, i) \o <<i>>
    ELSE EndsStarEach(r, text, i, Ends(r.r, text, i)) \o <<i>>

\* the ends of the remaining parts from each end of the first part
EndsEach(parts, text, es) ==
    IF es = <<>> THEN <<>>
    ELSE EndsSeq(parts, text, Head(es)) \o EndsEach(parts, text, Tail(es))

EndsSeq(parts, text, i) ==
    IF parts = <<>> THEN <<i>>
    ELSE EndsEach(Tail(parts), text, Ends(Head(parts), text, i))

EndsAlt(parts, text, i) ==
    IF parts = <<>> THEN <<>>
    ELSE Ends(Head(parts), text, i) \o EndsAlt(Tail(parts), text, i)

\* one more round of a star from each end es of a non-empty round
EndsStarEach(r, text, i, es) ==
    IF es = <<>> THEN <<>>
    ELSE (IF Head(es) > i THEN Ends(r, text, Head(es)) ELSE <<>>)
         \o EndsStarEach(r, text, i, Tail(es))

NoMatch == [start |-> 0, group_end |-> 0, end |-> 0]

RECURSIVE FirstGroupEnd(_, _, _, _)
\* the first end of the group from which the rest of the pattern matches
FirstGroupEnd(pattern, text, i, gs) ==
    IF gs = <<>> THEN NoMatch
    ELSE LET es == Ends(pattern.rest, text, Head(gs))
         IN  IF es # <<>>
             THEN [start |-> i, group_end |-> Head(gs), end |-> Head(es)]
             ELSE FirstGroupEnd(pattern, text, i, Tail(gs))

\* the match of the pattern that starts at position i, if there is one
MatchAt(pattern, text, i) ==
    FirstGroupEnd(pattern, text, i, Ends(pattern.group, text, i))

Min(S) == CHOOSE m \in S : \A y \in S : m <= y

\* the first match at or behind position pos
Search(pattern, text, pos) ==
    LET starts == { i \in pos..(Len(text) + 1) : MatchAt(pattern, text, i) # NoMatch }
    IN  IF starts = {} THEN NoMatch ELSE MatchAt(pattern, text, Min(starts))

RECURSIVE FindAllFrom(_, _, _)
FindAllFrom(pattern, text, pos) ==
    LET m == Search(pattern, text, pos)
    IN  IF m = NoMatch THEN <<>>
        ELSE <<SubSeq(text, m.start, m.group_end - 1)>>
             \o FindAllFrom(pattern, text, IF m.end = m.start THEN m.end + 1 ELSE m.end)

RECURSIVE FindAllWholeFrom(_, _, _)
FindAllWholeFrom(pattern, text, pos) ==
    LET m == Search(pattern, text, pos)
    IN  IF m = NoMatch THEN <<>>
        ELSE <<SubSeq(text, m.start, m.end - 1)>>
             \o FindAllWholeFrom(pattern, text, IF m.end = m.start THEN m.end + 1 ELSE m.end)

\* the pattern without its group: findall returns the whole matches
FindAllWhole(pattern, text) == FindAllWholeFrom(pattern, text, 1)

\* re.findall(pattern, text, re.IGNORECASE): the strings of group 1
FindAll(pattern, text) == FindAllFrom(pattern, text, 1)

\* list[:n]
Take(list, n) == SubSeq(list, 1, IF Len(list) < n THEN Len(list) ELSE n)

\* ----- feature lines
Bullets == {"BULLET", "-", "BLACK_CIRCLE", "WHITE_BULLET"}
\* the characters of the argument of lstrip
BulletStripChars == {"BULLET", "-", "BLACK_CIRCLE", "WHITE_BULLET", " "}
FeatureMinLen == 10
FeatureCap == 15
SpecCap == 5

RECURSIVE SplitFrom(_, _, _)
\* text.split(sep), from position pos on: one line per round
SplitFrom(text, sep, pos) ==
    LET seps == { i \in pos..Len(text) : text[i] = sep }
    IN  IF seps = {} THEN <<SubSeq(text, pos, Len(text))>>
        ELSE <<SubSeq(text, pos, Min(seps) - 1)>> \o SplitFrom(text, sep, Min(seps) + 1)

\* text.split('\n')
SplitLines(text) == SplitFrom(text, "\n", 1)

RECURSIVE LStripChars(_, _)
\* str.lstrip(chars)
LStripChars(s, chars) ==
    IF s # <<>> /\ Head(s) \in chars THEN LStripChars(Tail(s), chars) ELSE s

RECURSIVE RStripChars(_, _)
RStripChars(s, chars) ==
    IF s # <<>> /\ s[Len(s)] \in chars
    THEN RStripChars(SubSeq(s, 1, Len(s) - 1), chars) ELSE s

\* str.strip()
Strip(s) == RStripChars(LStripChars(s, Whitespace), Whitespace)

\* line.strip().startswith(('•', '-', '●', '◦'))
StartsWithBullet(line) == Strip(line) # <<>> /\ Head(Strip(line)) \in Bullets

\* line 79: line.strip().lstrip('•-●◦ ').strip()
CleanFeature(line) == Strip(LStripChars(Strip(line), BulletStripChars))

\* the comparison of line 80 taken as "at least"
LongEnoughInclusive(feature) == Len(feature) >= FeatureMinLen

\* line 80: len(feature) > 10
LongEnough(feature) == Len(feature) > FeatureMinLen

\* the slice of line 83 left out
CapFeaturesNone(list) == list

\* line 83: features[:15]
CapFeatures(list) == Take(list, FeatureCap)

\* the slice of line 68 left out
CapMatchesNone(list) == list

\* line 68: matches[:5]
CapMatches(list) == Take(list, SpecCap)

\* the test of line 67 left out: a category is stored even without a match
StoreMatchesAlways(d, spec_type, matches) ==
    (spec_type :> CapMatches(matches)) @@ d

\* lines 67-68: if matches: specs[spec_type] = matches[:5]
StoreMatches(d, spec_type, matches) ==
    IF matches # <<>> THEN (spec_type :> CapMatches(matches)) @@ d ELSE d

\* ----- application keywords
app_keywords ==
    << <<"a", "u", "t", "o", "m", "o", "t", "i", "v", "e">>,
       <<"i", "n", "d", "u", "s", "t", "r", "i", "a", "l">>,
       <<"c", "o", "n", "s", "u", "m", "e", "r">>,
       <<"m", "e", "d", "i", "c", "a", "l">>,
       <<"I", "o", "T">>,
       <<"w", "e", "a", "r", "a", "b", "l", "e">>,
       <<"b", "a", "t", "t", "e", "r", "y", "-", "p", "o", "w", "e", "r", "e", "d">>,
       <<"w", "i", "r", "e", "l", "e", "s", "s">>,
       <<"m", "o", "t", "o", "r", " ", "c", "o", "n", "t", "r", "o", "l">>,
       <<"p", "o", "w", "e", "r", " ", "s", "u", "p", "p", "l", "y">>,
       <<"L", "E", "D", " ", "d", "r", "i", "v", "e", "r">>,
       <<"s", "e", "n", "s", "o", "r", " ", "i", "n", "t", "e", "r", "f", "a", "c", "e">> >>

\* word in text
Contains(text, word) ==
    \E i \in 1..(Len(text) - Len(word) + 1) : SubSeq(text, i, i + Len(word) - 1) = word

\* line 97: keyword in text_lower
KeywordFound(keyword, text_lower) == Contains(text_lower, keyword)

\* ----- texts drawn
RECURSIVE Repeat(_, _)
Repeat(s, n) == IF n = 0 THEN <<>> ELSE s \o Repeat(s, n - 1)

RECURSIVE JoinLines(_)
\* "\n".join(lines)
JoinLines(ls) ==
    IF ls = <<>> THEN <<>>
    ELSE IF Len(ls) = 1 THEN ls[1]
    ELSE ls[1] \o <<"\n">> \o JoinLines(Tail(ls))

SpecAlphabet == {"3", ".", "V", " ", "-", "c"}
ExampleText == <<"O", "p", "e", "r", "a", "t", "i", "n", "g", " ", "V", "o", "l", "t", "a", "g", "e", ":", " ", "3", ".", "3", "V", " ", "t", "o", " ", "5", ".", "5", "V">>
SpecFixedTexts ==
    { <<"O", "p", "e", "r", "a", "t", "i", "n", "g", " ", "V", "o", "l", "t", "a", "g", "e", ":", " ", "3", ".", "3", "V", " ", "t", "o", " ", "5", ".", "5", "V">>,
      <<"S", "u", "p", "p", "l", "y", " ", "V", "o", "l", "t", "a", "g", "e", ":", " ", "3", ".", "3", "V", "\n", "C", "u", "r", "r", "e", "n", "t", ":", " ", "2", "5", "m", "A", "\n", "C", "l", "o", "c", "k", ":", " ", "1", "0", "0", "M", "H", "z", "\n", "R", "a", "n", "g", "e", ":", " ", "-", "4", "0", "DEGREE_SIGN", "C", " ", "t", "o", " ", "8", "5", "DEGREE_SIGN", "C", "\n", "P", "o", "w", "e", "r", ":", " ", "8", "2", "m", "W", "\n", "E", "f", "f", "i", "c", "i", "e", "n", "c", "y", ":", " ", "9", "2", "%">>,
      <<"1", ".", "2", ".", "3", "V", " ", "3", ".", "V", " ", "5", " ", "v", "o", "l", "t", "s", " ", "1", " ", "a", "p", "p", "l", "e", " ", "5", " ", "c", "a", "t", "s", " ", "5", "MICRO_SIGN", "A", " ", "9", "2", "%", " ", "e", "f", "f", ".", " ", "3", " ", "%", " ", "e", "f", "f", "i", "c", "i", "e", "n", "c", "y">>,
      <<"n", "o", " ", "n", "u", "m", "b", "e", "r", "s", " ", "h", "e", "r", "e">> }

SpecTokens ==
    { <<"3", ".", "3", "V">>,
      <<"5", "m", "A", " ">>,
      <<"2", ".", "4", "G", "H", "z", ",">>,
      <<"-", "4", "0", "DEGREE_SIGN", "C", " ">>,
      <<"7", " ", "W", "a", "t", "t", "s", " ">>,
      <<"9", "2", "%", " ", "e", "f", "f", ".">> }

SpecTexts ==
    SpecFixedTexts
    \cup SeqsUpTo(SpecAlphabet, MaxTextLen)
    \cup { Repeat(t, n) : t \in SpecTokens, n \in 0..MaxRepeat }

FeatureLines ==
    { <<" ", " ", "BULLET", " ", "L", "o", "w", " ", "p", "o", "w", "e", "r", " ", "c", "o", "n", "s", "u", "m", "p", "t", "i", "o", "n">>,
      <<"BULLET", " ", "o", "k">>,
      <<"-", " ", "-", "4", "0", "C", " ", "t", "o", " ", "+", "8", "5", "C">>,
      <<"K", "e", "y", " ", "F", "e", "a", "t", "u", "r", "e", "s", ":">>,
      <<"BLACK_CIRCLE", "\t", "I", "n", "t", "e", "g", "r", "a", "t", "e", "d", " ", "A", "D", "C">>,
      <<"WHITE_BULLET", " ", "0", "1", "2", "3", "4", "5", "6", "7", "8", "9", " ">>,
      <<"-", "-", " ", "d", "u", "a", "l", " ", "d", "a", "s", "h">>,
      <<>> }

FeatureTexts ==
    { JoinLines([k \in 1..(n1 + n2) |-> IF k <= n1 THEN a ELSE b]) :
        a \in FeatureLines, b \in FeatureLines, n1 \in 0..MaxFeatureRepeat, n2 \in 0..MaxFeatureTail }

AppTexts ==
    { <<>>,
      <<"A", "p", "p", "l", "i", "c", "a", "t", "i", "o", "n", "s", ":", "\n", "-", " ", "A", "u", "t", "o", "m", "o", "t", "i", "v", "e", " ", "s", "e", "n", "s", "o", "r", " ", "i", "n", "t", "e", "r", "f", "a", "c", "e", "s", "\n", "-", " ", "I", "n", "d", "u", "s", "t", "r", "i", "a", "l", " ", "a", "u", "t", "o", "m", "a", "t", "i", "o", "n", "\n", "-", " ", "I", "o", "T", " ", "e", "d", "g", "e", " ", "d", "e", "v", "i", "c", "e", "s", "\n", "-", " ", "M", "e", "d", "i", "c", "a", "l", " ", "m", "o", "n", "i", "t", "o", "r", "i", "n", "g", "\n", "-", " ", "B", "a", "t", "t", "e", "r", "y", "-", "p", "o", "w", "e", "r", "e", "d", " ", "s", "y", "s", "t", "e", "m", "s">>,
      <<"I", "o", "T">>,
      <<"i", "o", "t">>,
      <<"L", "E", "D", " ", "d", "r", "i", "v", "e", "r">>,
      <<"l", "e", "d", " ", "D", "R", "I", "V", "E", "R", " ", "a", "n", "d", " ", "M", "O", "T", "O", "R", " ", "C", "O", "N", "T", "R", "O", "L">>,
      <<"w", "i", "r", "e", "l", "e", "s", "s", " ", "w", "e", "a", "r", "a", "b", "l", "e", " ", "c", "o", "n", "s", "u", "m", "e", "r", " ", "p", "o", "w", "e", "r", " ", "s", "u", "p", "p", "l", "y">>,
      <<"a", "u", "t", "o", "m", "o", "t", "i", "v", " ", "i", "n", "d", "u", "s", "t", "r", "i", "a", "l">>,
      <<"P", "o", "w", "e", "r", " ", " ", "S", "u", "p", "p", "l", "y">>,
      <<"s", "e", "n", "s", "o", "r", " ", "i", "n", "t", "e", "r", "f", "a", "c", "e">> }


VARIABLES
    est_pc,          \* estimate_bom_cost: "idle", "loop", "done"
    est_caller,      \* "api" or "compare"
    components,      \* argument
    volume,          \* argument
    region,          \* argument
    discount_factor, \* local
    est_i,           \* number of components already processed by the loop
    estimation,      \* local dict
    est_ret,         \* returned dict, None before the first return
    cmp_pc,          \* compare_alternatives: "idle", "loop", "wait", "done"
    component_alternatives, \* argument
    cmp_volume,      \* argument
    cmp_idx,         \* enumerate index of the loop
    comparisons,     \* local list
    cmp_ret,         \* returned dict
    gvd_pc,          \* a direct _get_volume_discount call: "idle", "done"
    gvd_volume,      \* its argument
    gvd_ret,         \* its return value
    xs_pc,           \* _extract_specifications: "idle", "loop", "done"
    xs_text,         \* argument
    xs_k,            \* number of patterns already tried
    specs,           \* local dict
    xs_ret,          \* returned dict
    xf_pc,           \* _extract_features: "idle", "loop", "done"
    xf_text,         \* argument
    lines,           \* local list
    xf_k,            \* number of lines already read
    features,        \* local list
    xf_ret,          \* returned list
    xa_pc,           \* _extract_applications: "idle", "loop", "done"
    xa_text,         \* argument
    text_lower,      \* local
    xa_k,            \* number of keywords already tested
    applications,    \* local list
    xa_ret,          \* returned list
    self_volume_discounts, \* CostEstimator.volume_discounts of the shared instance
    self_spec_patterns,    \* DatasheetParser.spec_patterns of the shared
                           \* instance: the dict binds each category to its
                           \* pattern, an immutable str named by the category
    shared_boms,     \* the callers' BOM lists, passed by reference
    frames,          \* one call frame per thread
    chk_pc,          \* check_compliance: "idle", "loop", "done"
    product_type,    \* argument
    target_markets,  \* argument
    chk_i,           \* number of markets already read by the loop
    compliance_requirements, \* local dict
    chk_ret          \* returned dict

costVars == <<est_pc, est_caller, components, volume, region, discount_factor,
              est_i, estimation, est_ret>>
cmpVars == <<cmp_pc, component_alternatives, cmp_volume, cmp_idx, comparisons,
             cmp_ret>>
gvdVars == <<gvd_pc, gvd_volume, gvd_ret>>
xsVars == <<xs_pc, xs_text, xs_k, specs, xs_ret>>
xfVars == <<xf_pc, xf_text, lines, xf_k, features, xf_ret>>
xaVars == <<xa_pc, xa_text, text_lower, xa_k, applications, xa_ret>>
parserVars == <<xsVars, xfVars, xaVars>>
estimatorVars == <<costVars, cmpVars, gvdVars>>
threadVars == <<self_volume_discounts, self_spec_patterns, shared_boms, frames>>
complianceVars == <<chk_pc, product_type, target_markets, chk_i,
                    compliance_requirements, chk_ret>>

VARIABLES
    avail_pc,        \* check_availability: "idle", "done"
    avail_components, \* argument
    avail_region,    \* argument
    avail_ret        \* returned dict

supplyVars == <<avail_pc, avail_components, avail_region, avail_ret>>

VARIABLES
    self_api_key,    \* PatentSearcher.api_key
    sp_pc,           \* search_patents: "new" before the constructor has
                     \* run, then "idle", "post", "json", "loop", "except",
                     \* "done", "raised"
    sp_query,        \* argument
    results,         \* local dict
    sp_status,       \* response.status_code, None before the response
    sp_exc,          \* the exception raised in the try block, None if none
    data,            \* local: response.json()
    patents_data,    \* local
    sp_k,            \* number of patents already read by the loop
    sp_ret           \* returned dict

patentVars == <<self_api_key, sp_pc, sp_query, results, sp_status, sp_exc,
                data, patents_data, sp_k, sp_ret>>

VARIABLES
    det_pc,          \* _detect_component_type: "idle", "done"
    component_id,    \* argument
    det_ret          \* returned string

detectVars == <<det_pc, component_id, det_ret>>

VARIABLES
    as_pc,           \* assist: "idle", "analyze", "research", "components",
                     \* "supply", "generate", "except", "done"
    user_query,      \* local: query.prompt
    query_analysis,  \* local
    research_results, \* local
    as_chunks,       \* chunks already emitted on the stream
    as_failed,       \* the stage whose exception was caught, None if none
    handler_calls    \* the calls made on response_handler and on its text
                     \* stream, in order

assistVars == <<as_pc, user_query, query_analysis, research_results,
                as_chunks, as_failed, handler_calls>>

VARIABLES
    sessions         \* one record per session of get_session: the position
                     \* of its generator, the calls made on the session and
                     \* the exception under way

sessionVars == <<sessions>>

VARIABLES
    utcnow,          \* the reading of datetime.utcnow()
    cached_responses, \* the committed rows of table cached_responses, in the
                     \* order of their ids
    cache_frames,    \* one call frame, with its session, per caller
    cache_calls      \* calls made so far

cacheVars == <<utcnow, cached_responses, cache_frames, cache_calls>>

VARIABLES
    pdf_pc,          \* parse_pdf_datasheet: "idle", "get", "open", "pages",
                     \* "done"
    pdf_path_or_url, \* argument
    pdf,             \* the document pdfplumber opened
    pdf_pages,       \* the pages the loop of line 43 runs over
    page_num,        \* pages the loop has finished
    extracted_data,  \* local dict
    pdf_ret          \* returned dict

pdfVars == <<pdf_pc, pdf_path_or_url, pdf, pdf_pages, page_num,
             extracted_data, pdf_ret>>

\* (tool variables)
toolVars == <<supplyVars, patentVars, detectVars, assistVars, sessionVars,
              cacheVars, pdfVars>>
libraryVars == <<estimatorVars, parserVars, threadVars, complianceVars>>
otherVars == <<threadVars, complianceVars, toolVars>>
vars == <<costVars, cmpVars, gvdVars, xsVars, xfVars, xaVars, otherVars>>

InitCost ==
    /\ est_pc = "idle"
    /\ est_caller = "api"
    /\ components = <<>>
    /\ volume = 1000
    /\ region = "EU"
    /\ discount_factor = 100
    /\ est_i = 0
    /\ estimation = None
    /\ est_ret = None

InitCmp ==
    /\ cmp_pc = "idle"
    /\ component_alternatives = <<>>
    /\ cmp_volume = 1000
    /\ cmp_idx = 0
    /\ comparisons = <<>>
    /\ cmp_ret = None

InitGvd ==
    /\ gvd_pc = "idle"
    /\ gvd_volume = 0
    /\ gvd_ret = 0

InitParser ==
    /\ xs_pc = "idle" /\ xs_text = <<>> /\ xs_k = 0 /\ specs = <<>>
    /\ xs_ret = None
    /\ xf_pc = "idle" /\ xf_text = <<>> /\ lines = <<>> /\ xf_k = 0
    /\ features = <<>> /\ xf_ret = None
    /\ xa_pc = "idle" /\ xa_text = <<>> /\ text_lower = <<>> /\ xa_k = 0
    /\ applications = <<>> /\ xa_ret = None

Threads == 1..MaxThreads
ThreadVolumes == {100, 1000}
ThreadTexts == { <<"3", ".", "3", "V", " ", "5", "m", "A">> }

\* the lists the callers hold; two calls can be given the same list
SharedBoms ==
    << TestAlternative,
       << [part_number |-> "CREDIT", unit_price |-> -15000000, quantity |-> 3] >> >>

\* a thread that is in no call
IdleFrame ==
    [op |-> "none", pc |-> "idle", bom |-> 0, volume |-> 0, text |-> <<>>,
     discount_factor |-> 0, k |-> 0, estimation |-> None, specs |-> <<>>,
     ret |-> None]

\* lines 11-16 of cost_estimator.py, lines 15-22 of datasheet_parser.py
InitThreads ==
    /\ self_volume_discounts = volume_discounts
    /\ self_spec_patterns = [ty \in DOMAIN spec_patterns |-> ty]
    /\ shared_boms = SharedBoms
    /\ frames = [t \in Threads |-> IdleFrame]

InitCompliance ==
    /\ chk_pc = "idle"
    /\ product_type = ""
    /\ target_markets = <<>>
    /\ chk_i = 0
    /\ compliance_requirements = None
    /\ chk_ret = None

InitSupply ==
    /\ avail_pc = "idle"
    /\ avail_components = <<>>
    /\ avail_region = "both"
    /\ avail_ret = None

\* no PatentSearcher has been constructed yet
InitPatents ==
    /\ self_api_key = None
    /\ sp_pc = "new"
    /\ sp_query = ""
    /\ results = None
    /\ sp_status = None
    /\ sp_exc = None
    /\ data = None
    /\ patents_data = <<>>
    /\ sp_k = 0
    /\ sp_ret = None

InitDetect ==
    /\ det_pc = "idle"
    /\ component_id = <<>>
    /\ det_ret = None

InitAssist ==
    /\ as_pc = "idle"
    /\ user_query = <<>>
    /\ query_analysis = None
    /\ research_results = None
    /\ as_chunks = 0
    /\ as_failed = None
    /\ handler_calls = <<>>

SessionIds == 1..MaxSessions

\* no session has been handed out
NoSession ==
    [pc |-> "none", commits |-> 0, committed |-> FALSE, rollbacks |-> 0,
     closes |-> 0, exc |-> "none"]

InitSessions == sessions = [s \in SessionIds |-> NoSession]

Callers == 1..MaxCallers

IdleCall ==
    [pc |-> "idle", op |-> "none", query |-> "", response |-> "",
     query_hash |-> "", expires_at |-> 0, cached |-> 0, pending |-> "none",
     flush_failed |-> FALSE, ret |-> None]

\* the table is empty and no call is under way
InitCache ==
    /\ utcnow = 0
    /\ cached_responses = <<>>
    /\ cache_frames = [c \in Callers |-> IdleCall]
    /\ cache_calls = 0

\* line 35: the dict before the first page
NewExtractedData ==
    [specifications |-> <<>>, features |-> <<>>, applications |-> <<>>,
     raw_text |-> <<>>]

\* a document without pages
NoPdf == [pages |-> <<>>]

\* no datasheet has been parsed
InitPdf ==
    /\ pdf_pc = "idle"
    /\ pdf_path_or_url = "datasheet.pdf"
    /\ pdf = NoPdf
    /\ pdf_pages = <<>>
    /\ page_num = 0
    /\ extracted_data = NewExtractedData
    /\ pdf_ret = None

\* (tool inits)
InitTools ==
    /\ InitSupply /\ InitPatents /\ InitDetect /\ InitAssist /\ InitSessions
    /\ InitCache /\ InitPdf

Init ==
    /\ InitCost /\ InitCmp /\ InitGvd /\ InitParser /\ InitThreads
    /\ InitCompliance /\ InitTools

\* the caller makes one call at a time: no call of the other class is under
\* way or has been made
ParserIdle == xs_pc = "idle" /\ xf_pc = "idle" /\ xa_pc = "idle"
EstimatorIdle == est_pc = "idle" /\ cmp_pc = "idle"

\* the region compared without regard to case
CurrencyForAnyCase(reg) == IF reg \in {"EU", "eu", "Eu", "eU"} THEN "EUR" ELSE "USD"

\* line 33: "EUR" if region == "EU" else "USD"
CurrencyFor(reg) == IF reg = "EU" THEN "EUR" ELSE "USD"

\* a total that does not start from 0.0
NewEstimationSeeded(vol, reg) ==
    [volume |-> vol, region |-> reg, components |-> <<>>,
     total_cost |-> Pow10(5), cost_per_unit |-> 0,
     currency |-> CurrencyFor(reg)]

\* a total that starts from a duty charged outside the EU
NewEstimationWithDuty(vol, reg) ==
    [volume |-> vol, region |-> reg, components |-> <<>>,
     total_cost |-> IF reg = "EU" THEN 0 ELSE Pow10(7), cost_per_unit |-> 0,
     currency |-> CurrencyFor(reg)]

\* lines 27-34: the dict estimate_bom_cost fills in
NewEstimation(vol, reg) ==
    [volume |-> vol, region |-> reg, components |-> <<>>,
     total_cost |-> 0, cost_per_unit |-> 0,
     currency |-> CurrencyFor(reg)]

\* lines 27-36: build the dict, look the discount up
EstimateEnter(comps, vol, reg, caller) ==
    /\ est_pc' = "loop"
    /\ est_caller' = caller
    /\ components' = comps
    /\ volume' = vol
    /\ region' = reg
    /\ estimation' = NewEstimation(vol, reg)
    /\ discount_factor' = GetVolumeDiscount(vol)
    /\ est_i' = 0
    /\ UNCHANGED est_ret

\* a caller outside the class calls estimate_bom_cost
EstimateBomCost ==
    /\ est_pc = "idle"
    /\ cmp_pc = "idle"
    /\ ParserIdle
    /\ \E comps \in SeqsUpTo(Catalog, MaxLines) \cup UntypedBoms \cup SparseBoms,
          vol \in Volumes, reg \in Regions :
          EstimateEnter(comps, vol, reg, "api")
    /\ UNCHANGED <<cmpVars, gvdVars, parserVars, otherVars>>

\* the sum rounds the lines first (what the output lines would add up to)
EstimateAccumulateRounded(total, line_cost, reported) == total + reported

\* line 53: estimation["total_cost"] += line_cost
EstimateAccumulate(total, line_cost, reported) == total + line_cost

\* line 42 with one discount too many
DiscountedPriceTwice(unit_price, factor) == MulFactor(MulFactor(unit_price, factor), factor)

\* line 42: discounted_price = unit_price * discount_factor
DiscountedPrice(unit_price, factor) == MulFactor(unit_price, factor)

\* a quantity below zero counted as zero
LineCostClamped(discounted_price, quantity) ==
    discounted_price * (IF quantity < 0 THEN 0 ELSE quantity)

\* line 43: line_cost = discounted_price * quantity
LineCost(discounted_price, quantity) == discounted_price * quantity

\* lines 38-53: one iteration of the loop
EstimateLoop ==
    /\ est_pc = "loop"
    /\ est_i < Len(components)
    /\ LET component == components[est_i + 1]
           unit_price == Get(component, "unit_price", 0)
           quantity == Get(component, "quantity", 1)
           discounted_price == DiscountedPrice(unit_price, discount_factor)
           line_cost == LineCost(discounted_price, quantity)
       IN  /\ CanMultiply(unit_price)
           /\ CanMultiply(quantity)
           /\ \E u \in Round(unit_price, RoundDigits4),
                 d \in Round(discounted_price, RoundDigits4),
                 l \in Round(line_cost, RoundDigits4) :
                 estimation' =
                   [estimation EXCEPT
                      !.components = Append(@,
                          [part_number |-> Get(component, "part_number", None),
                           quantity |-> quantity,
                           unit_price |-> u,
                           discounted_price |-> d,
                           line_cost |-> l]),
                      !.total_cost = EstimateAccumulate(@, line_cost, l)]
    /\ est_i' = est_i + 1
    /\ UNCHANGED <<est_pc, est_caller, components, volume, region,
                   discount_factor, est_ret, cmpVars, gvdVars, parserVars, otherVars>>

\* lines 42-43: a product with an operand that is no number raises
\* TypeError; nothing in estimate_bom_cost catches it
EstimateRaise ==
    /\ est_pc = "loop"
    /\ est_i < Len(components)
    /\ LET component == components[est_i + 1]
       IN  \/ ~CanMultiply(Get(component, "unit_price", 0))
           \/ ~CanMultiply(Get(component, "quantity", 1))
    /\ est_pc' = "raised"
    /\ UNCHANGED <<est_caller, components, volume, region, discount_factor,
                   est_i, estimation, est_ret, cmpVars, gvdVars, parserVars, otherVars>>

\* the total divided by the volume
CostPerUnitByVolume(est) ==
    IF est.volume > 0 THEN Round(est.total_cost \div est.volume, RoundDigits2)
    ELSE Round(est.total_cost, RoundDigits2)

\* line 56: round(estimation["total_cost"], 2), read after line 55 has
\* stored the rounded total
CostPerUnit(est) == Round(est.total_cost, RoundDigits2)

\* lines 55-58: round the total, copy it, return
EstimateReturn ==
    /\ est_pc = "loop"
    /\ est_i = Len(components)
    /\ \E t \in Round(estimation.total_cost, RoundDigits2) :
         \E c \in CostPerUnit([estimation EXCEPT !.total_cost = t]) :
            /\ estimation' = [estimation EXCEPT !.total_cost = t,
                                                !.cost_per_unit = c]
            /\ est_ret' = estimation'
    /\ est_pc' = "done"
    /\ UNCHANGED <<est_caller, components, volume, region, discount_factor,
                   est_i, cmpVars, gvdVars, parserVars, otherVars>>

\* a direct call of _get_volume_discount
GetVolumeDiscountCall ==
    /\ \E v \in WindowVolumes :
          /\ gvd_pc' = "done"
          /\ gvd_volume' = v
          /\ gvd_ret' = GetVolumeDiscount(v)
    /\ UNCHANGED <<costVars, cmpVars, parserVars, otherVars>>

\* a caller outside the class calls compare_alternatives (line 75)
CompareAlternatives ==
    /\ cmp_pc = "idle"
    /\ est_pc = "idle"
    /\ ParserIdle
    /\ \E alts \in SeqsUpTo(AltBoms, MaxAlts) \cup UntypedAlternatives,
          vol \in CmpVolumes :
          /\ component_alternatives' = alts
          /\ cmp_volume' = vol
    /\ cmp_pc' = "loop"
    /\ cmp_idx' = 0
    /\ comparisons' = <<>>
    /\ UNCHANGED <<cmp_ret, costVars, gvdVars, parserVars, otherVars>>

\* line 78: the call self.estimate_bom_cost(alternative, volume); region
\* takes its default "EU"
CompareCallEstimate ==
    /\ cmp_pc = "loop"
    /\ cmp_idx < Len(component_alternatives)
    /\ est_pc = "idle"
    /\ EstimateEnter(component_alternatives[cmp_idx + 1], cmp_volume, "EU", "compare")
    /\ cmp_pc' = "wait"
    /\ UNCHANGED <<component_alternatives, cmp_volume, cmp_idx, comparisons,
                   cmp_ret, gvdVars, parserVars, otherVars>>

\* the label counted from 0
OptionLabelZeroBased(idx) == "Option " \o ToString(idx)

\* f"Option {idx + 1}"
OptionLabel(idx) == "Option " \o ToString(idx + 1)

\* [c.get("part_number") for c in alternative]
PartNumbers(alternative) ==
    [k \in 1..Len(alternative) |-> Get(alternative[k], "part_number", None)]

\* lines 79-83: the call has returned, append the entry; the callee's frame
\* is gone
CompareAppend ==
    /\ cmp_pc = "wait"
    /\ est_pc = "done"
    /\ est_caller = "compare"
    /\ comparisons' = Append(comparisons,
          [alternative |-> OptionLabel(cmp_idx),
           total_cost |-> est_ret.total_cost,
           components |-> PartNumbers(component_alternatives[cmp_idx + 1])])
    /\ cmp_idx' = cmp_idx + 1
    /\ cmp_pc' = "loop"
    /\ est_pc' = "idle"
    /\ est_caller' = "api"
    /\ components' = <<>>
    /\ volume' = 1000
    /\ region' = "EU"
    /\ discount_factor' = 100
    /\ est_i' = 0
    /\ estimation' = None
    /\ est_ret' = None
    /\ UNCHANGED <<component_alternatives, cmp_volume, cmp_ret, gvdVars,
                   parserVars, otherVars>>

\* line 78: the callee raised; compare_alternatives has no handler, the
\* exception goes on to its caller
CompareRaise ==
    /\ cmp_pc = "wait"
    /\ est_pc = "raised"
    /\ est_caller = "compare"
    /\ cmp_pc' = "raised"
    /\ UNCHANGED <<component_alternatives, cmp_volume, cmp_idx, comparisons,
                   cmp_ret, costVars, gvdVars, parserVars, otherVars>>

RECURSIVE InsertByTotalCost(_, _)
\* x goes behind every entry that does not cost more (the sort is stable)
InsertByTotalCost(x, sorted) ==
    IF sorted = <<>> THEN <<x>>
    ELSE IF Head(sorted).total_cost <= x.total_cost
         THEN <<Head(sorted)>> \o InsertByTotalCost(x, Tail(sorted))
         ELSE <<x>> \o sorted

RECURSIVE InsertionSort(_, _)
InsertionSort(todo, sorted) ==
    IF todo = <<>> THEN sorted
    ELSE InsertionSort(Tail(todo), InsertByTotalCost(Head(todo), sorted))

\* the sort forgotten
SortByTotalCostSkipped(list) == list

\* line 86: comparisons.sort(key=lambda x: x["total_cost"])
SortByTotalCost(list) == InsertionSort(list, <<>>)

\* the operands of the subtraction exchanged
SavingsSwapped(list) ==
    IF Len(list) > 1
    THEN Round(list[1].total_cost - list[Len(list)].total_cost, RoundDigits2)
    ELSE {0}

\* line 92: the values round(...) can return, or 0
Savings(list) ==
    IF Len(list) > 1
    THEN Round(list[Len(list)].total_cost - list[1].total_cost, RoundDigits2)
    ELSE {0}

\* lines 86-93
CompareReturn ==
    /\ cmp_pc = "loop"
    /\ cmp_idx = Len(component_alternatives)
    /\ comparisons' = SortByTotalCost(comparisons)
    /\ \E s \in Savings(comparisons') :
          cmp_ret' = [volume |-> cmp_volume,
                      alternatives |-> comparisons',
                      best_option |-> IF comparisons' # <<>>
                                      THEN comparisons'[1] ELSE None,
                      savings |-> s]
    /\ cmp_pc' = "done"
    /\ UNCHANGED <<component_alternatives, cmp_volume, cmp_idx, costVars,
                   gvdVars, parserVars, otherVars>>

Next ==
    \/ EstimateBomCost
    \/ EstimateLoop
    \/ EstimateRaise
    \/ EstimateReturn
    \/ CompareAlternatives
    \/ CompareCallEstimate
    \/ CompareAppend
    \/ CompareRaise
    \/ CompareReturn

Spec == Init /\ [][Next]_vars

NextDiscount == GetVolumeDiscountCall

SpecDiscount == Init /\ [][NextDiscount]_vars

\* ----- DatasheetParser._extract_specifications
\* line 63
ExtractSpecifications ==
    /\ ParserIdle
    /\ EstimatorIdle
    /\ \E text \in SpecTexts : xs_text' = text
    /\ specs' = <<>>
    /\ xs_k' = 0
    /\ xs_pc' = "loop"
    /\ UNCHANGED <<xs_ret, xfVars, xaVars, estimatorVars, otherVars>>

\* lines 65-68: one pattern
ExtractSpecificationsLoop ==
    /\ xs_pc = "loop"
    /\ xs_k < Len(SpecTypes)
    /\ LET spec_type == SpecTypes[xs_k + 1]
           matches == FindAll(spec_patterns[spec_type], xs_text)
       IN  specs' = StoreMatches(specs, spec_type, matches)
    /\ xs_k' = xs_k + 1
    /\ UNCHANGED <<xs_pc, xs_text, xs_ret, xfVars, xaVars, estimatorVars, otherVars>>

\* line 70
ExtractSpecificationsReturn ==
    /\ xs_pc = "loop"
    /\ xs_k = Len(SpecTypes)
    /\ xs_ret' = specs
    /\ xs_pc' = "done"
    /\ UNCHANGED <<xs_text, xs_k, specs, xfVars, xaVars, estimatorVars, otherVars>>

\* ----- DatasheetParser._extract_features
\* lines 74-75
ExtractFeatures ==
    /\ ParserIdle
    /\ EstimatorIdle
    /\ \E text \in FeatureTexts :
          /\ xf_text' = text
          /\ lines' = SplitLines(text)
    /\ features' = <<>>
    /\ xf_k' = 0
    /\ xf_pc' = "loop"
    /\ UNCHANGED <<xf_ret, xsVars, xaVars, estimatorVars, otherVars>>

\* lines 77-81: one line
ExtractFeaturesLoop ==
    /\ xf_pc = "loop"
    /\ xf_k < Len(lines)
    /\ LET line == lines[xf_k + 1]
           feature == CleanFeature(line)
       IN  features' = IF StartsWithBullet(line) /\ LongEnough(feature)
                       THEN Append(features, feature)
                       ELSE features
    /\ xf_k' = xf_k + 1
    /\ UNCHANGED <<xf_pc, xf_text, lines, xf_ret, xsVars, xaVars, estimatorVars, otherVars>>

\* line 83
ExtractFeaturesReturn ==
    /\ xf_pc = "loop"
    /\ xf_k = Len(lines)
    /\ xf_ret' = CapFeatures(features)
    /\ xf_pc' = "done"
    /\ UNCHANGED <<xf_text, lines, xf_k, features, xsVars, xaVars, estimatorVars, otherVars>>

\* ----- DatasheetParser._extract_applications
\* lines 93-94
ExtractApplications ==
    /\ ParserIdle
    /\ EstimatorIdle
    /\ \E text \in AppTexts :
          /\ xa_text' = text
          /\ text_lower' = Lower(text)
    /\ applications' = <<>>
    /\ xa_k' = 0
    /\ xa_pc' = "loop"
    /\ UNCHANGED <<xa_ret, xsVars, xfVars, estimatorVars, otherVars>>

\* lines 96-98: one keyword
ExtractApplicationsLoop ==
    /\ xa_pc = "loop"
    /\ xa_k < Len(app_keywords)
    /\ LET keyword == app_keywords[xa_k + 1]
       IN  applications' = IF KeywordFound(keyword, text_lower)
                           THEN Append(applications, keyword)
                           ELSE applications
    /\ xa_k' = xa_k + 1
    /\ UNCHANGED <<xa_pc, xa_text, text_lower, xa_ret, xsVars, xfVars, estimatorVars, otherVars>>

\* line 100
ExtractApplicationsReturn ==
    /\ xa_pc = "loop"
    /\ xa_k = Len(app_keywords)
    /\ xa_ret' = applications
    /\ xa_pc' = "done"
    /\ UNCHANGED <<xa_text, text_lower, xa_k, applications, xsVars, xfVars,
                   estimatorVars, otherVars>>

NextParser ==
    \/ ExtractSpecifications
    \/ ExtractSpecificationsLoop
    \/ ExtractSpecificationsReturn
    \/ ExtractFeatures
    \/ ExtractFeaturesLoop
    \/ ExtractFeaturesReturn
    \/ ExtractApplications
    \/ ExtractApplicationsLoop
    \/ ExtractApplicationsReturn

SpecParser == Init /\ [][NextParser]_vars

\* ----- two or more threads call one CostEstimator and one DatasheetParser.
\* Each call has its own frame (the locals of the function); the instance
\* attributes and the BOM lists are shared.  The BOM lists hold BOM lines
\* only, so the product of lines 42-43 does not raise here.

\* a lookup that uses the table up: the matched threshold is removed
ThreadEstimateEnterConsuming(t) ==
    /\ frames[t].pc = "idle"
    /\ \E b \in DOMAIN shared_boms, vol \in ThreadVolumes :
          /\ frames' = [frames EXCEPT ![t] =
                [@ EXCEPT !.op = "estimate", !.pc = "loop", !.bom = b,
                          !.volume = vol, !.k = 0,
                          !.estimation = NewEstimation(vol, "EU"),
                          !.discount_factor =
                              GetVolumeDiscountIn(self_volume_discounts, vol)]]
          /\ self_volume_discounts' =
                [th \in { x \in DOMAIN self_volume_discounts : x > vol } |->
                    self_volume_discounts[th]]
    /\ UNCHANGED <<self_spec_patterns, shared_boms, estimatorVars, parserVars,
                   complianceVars, toolVars>>

\* lines 27-36 in thread t
ThreadEstimateEnter(t) ==
    /\ frames[t].pc = "idle"
    /\ \E b \in DOMAIN shared_boms, vol \in ThreadVolumes :
          frames' = [frames EXCEPT ![t] =
                [@ EXCEPT !.op = "estimate", !.pc = "loop", !.bom = b,
                          !.volume = vol, !.k = 0,
                          !.estimation = NewEstimation(vol, "EU"),
                          !.discount_factor =
                              GetVolumeDiscountIn(self_volume_discounts, vol)]]
    /\ UNCHANGED <<self_volume_discounts, self_spec_patterns, shared_boms,
                   estimatorVars, parserVars, complianceVars, toolVars>>

\* lines 38-53 in thread t: one iteration
ThreadEstimateLoop(t) ==
    /\ frames[t].op = "estimate"
    /\ frames[t].pc = "loop"
    /\ frames[t].k < Len(shared_boms[frames[t].bom])
    /\ LET component == shared_boms[frames[t].bom][frames[t].k + 1]
           unit_price == Get(component, "unit_price", 0)
           quantity == Get(component, "quantity", 1)
           discounted_price == DiscountedPrice(unit_price, frames[t].discount_factor)
           line_cost == LineCost(discounted_price, quantity)
       IN  \E u \in Round(unit_price, RoundDigits4),
              d \in Round(discounted_price, RoundDigits4),
              l \in Round(line_cost, RoundDigits4) :
              frames' = [frames EXCEPT ![t] =
                 [@ EXCEPT !.k = @ + 1,
                           !.estimation =
                              [@ EXCEPT
                                 !.components = Append(@,
                                    [part_number |-> Get(component, "part_number", None),
                                     quantity |-> quantity,
                                     unit_price |-> u,
                                     discounted_price |-> d,
                                     line_cost |-> l]),
                                 !.total_cost = EstimateAccumulate(@, line_cost, l)]]]
    /\ UNCHANGED <<self_volume_discounts, self_spec_patterns, shared_boms,
                   estimatorVars, parserVars, complianceVars, toolVars>>

\* lines 55-58 in thread t
ThreadEstimateReturn(t) ==
    /\ frames[t].op = "estimate"
    /\ frames[t].pc = "loop"
    /\ frames[t].k = Len(shared_boms[frames[t].bom])
    /\ \E tc \in Round(frames[t].estimation.total_cost, RoundDigits2) :
         \E c \in CostPerUnit([frames[t].estimation EXCEPT !.total_cost = tc]) :
            frames' = [frames EXCEPT ![t] =
               [@ EXCEPT !.pc = "done",
                         !.estimation = [@ EXCEPT !.total_cost = tc,
                                                  !.cost_per_unit = c],
                         !.ret = [frames[t].estimation EXCEPT
                                     !.total_cost = tc, !.cost_per_unit = c]]]
    /\ UNCHANGED <<self_volume_discounts, self_spec_patterns, shared_boms,
                   estimatorVars, parserVars, complianceVars, toolVars>>

\* line 63 of datasheet_parser.py in thread t
ThreadExtractEnter(t) ==
    /\ frames[t].pc = "idle"
    /\ \E text \in ThreadTexts :
          frames' = [frames EXCEPT ![t] =
             [@ EXCEPT !.op = "extract", !.pc = "loop", !.text = text,
                       !.k = 0, !.specs = <<>>]]
    /\ UNCHANGED <<self_volume_discounts, self_spec_patterns, shared_boms,
                   estimatorVars, parserVars, complianceVars, toolVars>>

\* lines 65-68 in thread t: one item of self.spec_patterns
ThreadExtractLoop(t) ==
    /\ frames[t].op = "extract"
    /\ frames[t].pc = "loop"
    /\ frames[t].k < Len(SpecTypes)
    /\ LET spec_type == SpecTypes[frames[t].k + 1]
           pattern == spec_patterns[self_spec_patterns[spec_type]]
           matches == FindAll(pattern, frames[t].text)
       IN  frames' = [frames EXCEPT ![t] =
              [@ EXCEPT !.k = @ + 1,
                        !.specs = StoreMatches(@, spec_type, matches)]]
    /\ UNCHANGED <<self_volume_discounts, self_spec_patterns, shared_boms,
                   estimatorVars, parserVars, complianceVars, toolVars>>

\* line 70 in thread t
ThreadExtractReturn(t) ==
    /\ frames[t].op = "extract"
    /\ frames[t].pc = "loop"
    /\ frames[t].k = Len(SpecTypes)
    /\ frames' = [frames EXCEPT ![t] = [@ EXCEPT !.pc = "done", !.ret = frames[t].specs]]
    /\ UNCHANGED <<self_volume_discounts, self_spec_patterns, shared_boms,
                   estimatorVars, parserVars, complianceVars, toolVars>>

NextConcurrent ==
    \E t \in Threads :
       \/ ThreadEstimateEnter(t)
       \/ ThreadEstimateLoop(t)
       \/ ThreadEstimateReturn(t)
       \/ ThreadExtractEnter(t)
       \/ ThreadExtractLoop(t)
       \/ ThreadExtractReturn(t)

SpecConcurrent == Init /\ [][NextConcurrent]_vars

\* =================================================== compliance checker
\* A market is a sequence of characters, like a text of the parser.

\* str.upper() of one character
UpperChar(c) ==
    IF \E k \in 1..26 : LowerCase[k] = c
    THEN UpperCase[CHOOSE k \in 1..26 : LowerCase[k] = c]
    ELSE c

\* str.upper()
Upper(text) == [k \in 1..Len(text) |-> UpperChar(text[k])]

\* the market compared as it was given
MarketKeyAsGiven(market) == market

\* lines 51, 58, 65: market.upper()
MarketKey(market) == Upper(market)

\* the lists of lines 51, 58 and 65
EuNames == { <<"E", "U">>, <<"E", "U", "R", "O", "P", "E">> }
UsaNames == { <<"U", "S", "A">>, <<"U", "S">> }
ChinaNames == { <<"C", "H", "I", "N", "A">>, <<"C", "N">> }

\* the lists of lines 53, 60 and 67
EuCertifications == <<"CE Mark", "RoHS", "REACH">>
UsaCertifications == <<"FCC Part 15", "UL/ETL (optional)">>
ChinaCertifications == <<"CCC", "RoHS China">>

\* the values of lines 55-56, 62-63 and 69-70; EURO_SIGN is U+20AC
Timelines == [EU |-> "3-6 months", USA |-> "2-4 months", China |-> "4-8 months"]
Costs == [EU |-> "EURO_SIGN5,000-EURO_SIGN15,000", USA |-> "$3,000-$10,000",
          China |-> "$8,000-$20,000"]

\* the market a name stands for, "" for a name that is in none of the lists
MarketOf(key) ==
    IF key \in EuNames THEN "EU"
    ELSE IF key \in UsaNames THEN "USA"
    ELSE IF key \in ChinaNames THEN "China"
    ELSE ""

CertificationsOf(m) ==
    IF m = "EU" THEN EuCertifications
    ELSE IF m = "USA" THEN UsaCertifications
    ELSE IF m = "China" THEN ChinaCertifications
    ELSE <<>>

Elements(list) == { list[k] : k \in 1..Len(list) }

RECURSIVE Orders(_)
\* the orders in which the elements of a set can be listed
Orders(S) ==
    IF S = {} THEN { <<>> }
    ELSE UNION { { <<x>> \o rest : rest \in Orders(S \ {x}) } : x \in S }

\* the list returned as it was collected
RemoveDuplicatesSkipped(list) == { list }

\* lines 73-75: list(set(...)); the order in which a set of strings is
\* iterated differs from run to run
RemoveDuplicates(list) == Orders(Elements(list))

\* the markets of the tests, and one that is in no list
Markets == { <<"e", "u">>, <<"E", "u", "r", "o", "p", "e">>, <<"U", "S", "A">>, <<"u", "s">>, <<"C", "h", "i", "n", "a">>, <<"C", "N">>, <<"U", "K">> }
TestMarkets == << <<"E", "U">>, <<"U", "S", "A">>, <<"C", "h", "i", "n", "a">> >>
MarketLists == SeqsUpTo(Markets, MaxMarkets) \cup {TestMarkets}

\* lines 42-48
CheckCompliance ==
    /\ chk_pc = "idle"
    /\ \E markets \in MarketLists :
          /\ target_markets' = markets
          /\ compliance_requirements' =
                [product_type |-> "device",
                 target_markets |-> markets,
                 required_certifications |-> <<>>,
                 estimated_timeline |-> <<>>,
                 estimated_costs |-> <<>>]
    /\ product_type' = "device"
    /\ chk_i' = 0
    /\ chk_pc' = "loop"
    /\ UNCHANGED <<chk_ret, estimatorVars, parserVars, threadVars, toolVars>>

\* lines 50-70: one market
CheckComplianceLoop ==
    /\ chk_pc = "loop"
    /\ chk_i < Len(target_markets)
    /\ LET market == target_markets[chk_i + 1]
           m == MarketOf(MarketKey(market))
       IN  compliance_requirements' =
              IF m = "" THEN compliance_requirements
              ELSE [compliance_requirements EXCEPT
                      !.required_certifications = @ \o CertificationsOf(m),
                      !.estimated_timeline = (m :> Timelines[m]) @@ @,
                      !.estimated_costs = (m :> Costs[m]) @@ @]
    /\ chk_i' = chk_i + 1
    /\ UNCHANGED <<chk_pc, product_type, target_markets, chk_ret,
                   estimatorVars, parserVars, threadVars, toolVars>>

\* lines 72-77
CheckComplianceReturn ==
    /\ chk_pc = "loop"
    /\ chk_i = Len(target_markets)
    /\ \E certs \in RemoveDuplicates(compliance_requirements.required_certifications) :
          /\ compliance_requirements' =
                [compliance_requirements EXCEPT !.required_certifications = certs]
          /\ chk_ret' = compliance_requirements'
    /\ chk_pc' = "done"
    /\ UNCHANGED <<product_type, target_markets, chk_i,
                   estimatorVars, parserVars, threadVars, toolVars>>

NextCompliance ==
    \/ CheckCompliance
    \/ CheckComplianceLoop
    \/ CheckComplianceReturn

SpecCompliance == Init /\ [][NextCompliance]_vars

\* ================================================== supply chain tracker
\* tools/supply_chain.py

\* the components of test_check_availability
ComponentNames == {"STM32F407", "ESP32-S3", "nRF52840"}
ComponentLists == SeqsUpTo(ComponentNames, MaxComponents)
\* lines 10-13 and the default of line 18
TrackerRegions == {"both", "EU", "Asia"}
\* datetime.now().isoformat() of line 21: a reading of the clock
Timestamps == 0..MaxClock

\* lines 23-29: {comp: {...} for comp in components}; a dict holds one entry
\* per distinct key
AvailabilityOf(comps) ==
    [comp \in Elements(comps) |->
        [status |-> "placeholder",
         note |-> "Implement distributor API integration"]]

\* lines 15-34
CheckAvailability ==
    /\ avail_pc = "idle"
    /\ \E comps \in ComponentLists, reg \in TrackerRegions, ts \in Timestamps :
          /\ avail_components' = comps
          /\ avail_region' = reg
          /\ avail_ret' =
                [timestamp |-> ts,
                 region |-> reg,
                 components |-> AvailabilityOf(comps),
                 summary |->
                    [total_checked |-> Len(comps),
                     note |-> "Connect to Digi-Key, Mouser, Octopart APIs for real-time data"]]
    /\ avail_pc' = "done"
    /\ UNCHANGED <<libraryVars, pdfVars, patentVars, detectVars, assistVars, sessionVars,
                   cacheVars>>

NextSupply == CheckAvailability

SpecSupply == Init /\ [][NextSupply]_vars

\* ======================================================== patent searcher
\* tools/patent_search.py

\* not x, for a string or None
Falsy(v) == IF IsNone(v) THEN TRUE ELSE v = ""

AbstractCap == 500

\* lines 137-165
PlaceholderResults(query, ts) ==
    [patents |->
        << [patent_id |-> "US-PLACEHOLDER-001",
            title |-> "Advanced Technology Related to " \o query,
            abstract |-> "This patent describes innovations in " \o query,
            filing_date |-> "2023-06-15",
            assignee |-> "Technology Corporation",
            source |-> "Placeholder (API unavailable)"],
           [patent_id |-> "US-PLACEHOLDER-002",
            title |-> "Novel Approach to " \o query \o " Implementation",
            abstract |-> "A method and apparatus for implementing " \o query,
            filing_date |-> "2023-09-20",
            assignee |-> "Innovation Labs",
            source |-> "Placeholder (API unavailable)"] >>,
     total_found |-> 2,
     search_date |-> ts,
     query |-> query,
     source |-> "Placeholder",
     note |-> "PatentsView API unavailable - showing placeholder data"]

\* the query of test_search_patents, and the empty query
PatentQueries == {"GaN power transistor", ""}

\* patents as the service sends them; an abstract is given by its length,
\* and the third record has a null abstract
ApiPatents ==
    { [patent_number |-> "11000001", patent_title |-> "GaN HEMT",
       patent_abstract |-> 620, patent_date |-> "2022-03-01",
       assignees |-> << [assignee_organization |-> "Acme"] >>],
      [patent_number |-> "11000002", patent_title |-> "Gate driver",
       patent_date |-> "2023-01-10", assignees |-> << [a |-> 0] >>],
      [patent_number |-> "11000003", patent_abstract |-> None] }

\* bodies of a 200 response: with and without count, with and without
\* patents
ApiData ==
    UNION { { [patents |-> ps, count |-> Len(ps) + 40], [patents |-> ps] } :
            ps \in SeqsUpTo(ApiPatents, MaxPatents) }
       \cup { [count |-> 0] }
\* a body with a null patents field
NullPatentsData == [patents |-> None]

\* statuses the service answers with
Statuses == {200, 401, 429, 403, 500}
\* what requests.post and response.json raise
PostExceptions == {"Timeout", "ConnectionError"}
JsonExceptions == {"JSONDecodeError"}

\* a handler chain that catches the timeout only
CaughtByTimeoutOnly(exc) == IF exc = "Timeout" THEN "timeout" ELSE "none"

\* lines 125 and 130: the except clause that catches exc; every exception
\* raised in the try block derives from Exception
CaughtBy(exc) == IF exc = "Timeout" THEN "timeout" ELSE "exception"

\* a string cut to n characters, the string given by its length
Slice(len, n) == IF len > n THEN n ELSE len

\* lines 94-106: the record appended for one patent
PatentRecord(patent) ==
    LET assignees == Get(patent, "assignees", <<>>)
        assignee_name ==
            IF assignees # <<>>
            THEN Get(assignees[1], "assignee_organization", "Unknown")
            ELSE "Unknown"
    IN  [patent_id |-> Get(patent, "patent_number", None),
         title |-> Get(patent, "patent_title", None),
         abstract |-> Slice(Get(patent, "patent_abstract", 0), AbstractCap),
         filing_date |-> Get(patent, "patent_date", None),
         assignee |-> assignee_name,
         source |-> "PatentsView (Authenticated)"]

\* lines 15-22: the constructor reads the key from the environment, where
\* it is unset, empty or set
PatentSearcherInit ==
    /\ sp_pc = "new"
    /\ \/ self_api_key' = None
       \/ self_api_key' \in {"", "key"}
    /\ sp_pc' = "idle"
    /\ UNCHANGED <<sp_query, results, sp_status, sp_exc, data, patents_data,
                   sp_k, sp_ret, libraryVars, pdfVars, supplyVars, detectVars, assistVars,
                   sessionVars, cacheVars>>

\* lines 36-46: build results; without a key return the placeholder.  The
\* request of lines 50-78 is built from the arguments and changes nothing
\* that is returned.
SearchPatents ==
    /\ sp_pc = "idle"
    /\ \E query \in PatentQueries, ts \in Timestamps :
          /\ sp_query' = query
          /\ results' = [patents |-> <<>>, total_found |-> 0,
                         search_date |-> ts, query |-> query,
                         source |-> "PatentsView"]
          /\ IF Falsy(self_api_key)
             THEN /\ \E ts2 \in ts..MaxClock :
                        sp_ret' = PlaceholderResults(query, ts2)
                  /\ sp_pc' = "done"
             ELSE /\ sp_pc' = "post"
                  /\ UNCHANGED sp_ret
    /\ UNCHANGED <<self_api_key, sp_status, sp_exc, data, patents_data, sp_k,
                   libraryVars, pdfVars, supplyVars, detectVars, assistVars,
                   sessionVars, cacheVars>>

\* lines 80-87: the service answers 200
PostOk ==
    /\ sp_pc = "post"
    /\ sp_status' = 200
    /\ sp_pc' = "json"
    /\ UNCHANGED <<self_api_key, sp_query, results, sp_exc, data, patents_data,
                   sp_k, sp_ret, libraryVars, pdfVars, supplyVars, detectVars, assistVars,
                   sessionVars, cacheVars>>

\* lines 111-119: 401 or 429
PostRefused ==
    /\ sp_pc = "post"
    /\ \E status \in {401, 429} :
          /\ sp_status' = status
          /\ results' = [error |-> IF status = 401 THEN "Invalid API key"
                                   ELSE "Rate limit exceeded"] @@ results
    /\ \E ts2 \in results.search_date..MaxClock :
          sp_ret' = PlaceholderResults(sp_query, ts2)
    /\ sp_pc' = "done"
    /\ UNCHANGED <<self_api_key, sp_query, sp_exc, data, patents_data, sp_k,
                   libraryVars, pdfVars, supplyVars, detectVars, assistVars,
                   sessionVars, cacheVars>>

\* lines 121-123 and 135: any other status
PostOtherStatus ==
    /\ sp_pc = "post"
    /\ \E status \in Statuses \ {200, 401, 429} :
          /\ sp_status' = status
          /\ results' = [error |-> "API error: " \o ToString(status)] @@ results
    /\ sp_ret' = results'
    /\ sp_pc' = "done"
    /\ UNCHANGED <<self_api_key, sp_query, sp_exc, data, patents_data, sp_k,
                   libraryVars, pdfVars, supplyVars, detectVars, assistVars,
                   sessionVars, cacheVars>>

\* line 80: requests.post raises
PostRaises ==
    /\ sp_pc = "post"
    /\ \E exc \in PostExceptions : sp_exc' = exc
    /\ sp_pc' = "except"
    /\ UNCHANGED <<self_api_key, sp_query, results, sp_status, data,
                   patents_data, sp_k, sp_ret, libraryVars, pdfVars, supplyVars, detectVars, assistVars,
                   sessionVars, cacheVars>>

\* lines 88-90: the body is parsed
ResponseJson ==
    /\ sp_pc = "json"
    /\ \/ \E d \in ApiData :
             /\ data' = d
             /\ patents_data' = Get(d, "patents", <<>>)
       \/ /\ data' = NullPatentsData
          /\ patents_data' = Get(NullPatentsData, "patents", <<>>)
    /\ sp_k' = 0
    /\ sp_pc' = "loop"
    /\ UNCHANGED <<self_api_key, sp_query, results, sp_status, sp_exc, sp_ret,
                   libraryVars, pdfVars, supplyVars, detectVars, assistVars,
                   sessionVars, cacheVars>>

\* line 88: the body is no JSON
ResponseJsonRaises ==
    /\ sp_pc = "json"
    /\ \E exc \in JsonExceptions : sp_exc' = exc
    /\ sp_pc' = "except"
    /\ UNCHANGED <<self_api_key, sp_query, results, sp_status, data,
                   patents_data, sp_k, sp_ret, libraryVars, pdfVars, supplyVars, detectVars, assistVars,
                   sessionVars, cacheVars>>

\* lines 92-106: one patent
PatentsLoop ==
    /\ sp_pc = "loop"
    /\ ~IsNone(patents_data)
    /\ sp_k < Len(patents_data)
    /\ LET patent == patents_data[sp_k + 1]
       IN  /\ ~IsNone(Get(patent, "patent_abstract", 0))
           /\ results' = [results EXCEPT
                            !.patents = Append(@, PatentRecord(patent))]
    /\ sp_k' = sp_k + 1
    /\ UNCHANGED <<self_api_key, sp_pc, sp_query, sp_status, sp_exc, data,
                   patents_data, sp_ret, libraryVars, pdfVars, supplyVars, detectVars, assistVars,
                   sessionVars, cacheVars>>

\* line 92 on a null list, line 102 on a null abstract: TypeError
PatentsLoopRaises ==
    /\ sp_pc = "loop"
    /\ \/ IsNone(patents_data)
       \/ /\ ~IsNone(patents_data)
          /\ sp_k < Len(patents_data)
          /\ IsNone(Get(patents_data[sp_k + 1], "patent_abstract", 0))
    /\ sp_exc' = "TypeError"
    /\ sp_pc' = "except"
    /\ UNCHANGED <<self_api_key, sp_query, results, sp_status, data,
                   patents_data, sp_k, sp_ret, libraryVars, pdfVars, supplyVars, detectVars, assistVars,
                   sessionVars, cacheVars>>

\* lines 108 and 135
PatentsCounted ==
    /\ sp_pc = "loop"
    /\ ~IsNone(patents_data)
    /\ sp_k = Len(patents_data)
    /\ results' = [results EXCEPT
                     !.total_found = Get(data, "count", Len(results.patents))]
    /\ sp_ret' = results'
    /\ sp_pc' = "done"
    /\ UNCHANGED <<self_api_key, sp_query, sp_status, sp_exc, data,
                   patents_data, sp_k, libraryVars, pdfVars, supplyVars, detectVars, assistVars,
                   sessionVars, cacheVars>>

\* lines 125-133: the except clauses
HandleException ==
    /\ sp_pc = "except"
    /\ LET handler == CaughtBy(sp_exc)
       IN  IF handler = "none"
           THEN /\ sp_pc' = "raised"
                /\ UNCHANGED <<results, sp_ret>>
           ELSE /\ results' = [error |-> IF handler = "timeout"
                                         THEN "Request timeout"
                                         ELSE sp_exc] @@ results
                /\ \E ts2 \in results.search_date..MaxClock :
                      sp_ret' = PlaceholderResults(sp_query, ts2)
                /\ sp_pc' = "done"
    /\ UNCHANGED <<self_api_key, sp_query, sp_status, sp_exc, data,
                   patents_data, sp_k, libraryVars, pdfVars, supplyVars, detectVars, assistVars,
                   sessionVars, cacheVars>>

NextPatents ==
    \/ PatentSearcherInit
    \/ SearchPatents
    \/ PostOk
    \/ PostRefused
    \/ PostOtherStatus
    \/ PostRaises
    \/ ResponseJson
    \/ ResponseJsonRaises
    \/ PatentsLoop
    \/ PatentsLoopRaises
    \/ PatentsCounted
    \/ HandleException

SpecPatents == Init /\ [][NextPatents]_vars

\* ====================================================== component analyzer
\* tools/component_tools.py.  A component id is a sequence of characters.

\* the id compared as it was given
ComponentIdAsGiven(id) == id

\* line 54: component_id.upper()
ComponentIdUpper(id) == Upper(id)

\* the lists of lines 56, 58 and 60
MicrocontrollerMarks == <<<<"S", "T", "M", "3", "2">>, <<"E", "S", "P", "3", "2">>, <<"N", "R", "F">>, <<"M", "S", "P", "4", "3", "0">>>>
PowerIcMarks == <<<<"T", "P", "S">>, <<"L", "M">>, <<"M", "A", "X">>, <<"L", "T">>>>
SensorMarks == <<<<"B", "M", "E">>, <<"B", "M", "P">>, <<"M", "P", "U">>, <<"L", "S", "M">>>>

\* any(x in component_id_upper for x in marks)
AnyIn(marks, text) == \E k \in 1..Len(marks) : Contains(text, marks[k])

\* lines 53-63
DetectComponentTypeOf(id) ==
    LET component_id_upper == ComponentIdUpper(id)
    IN  IF AnyIn(MicrocontrollerMarks, component_id_upper) THEN "microcontroller"
        ELSE IF AnyIn(PowerIcMarks, component_id_upper) THEN "power_ic"
        ELSE IF AnyIn(SensorMarks, component_id_upper) THEN "sensor"
        ELSE "unknown"

\* the ids of test_detect_component_type and test_unknown_component_type
TestIds ==
    { <<"S", "T", "M", "3", "2", "F", "4", "0", "7">>,
      <<"E", "S", "P", "3", "2", "-", "S", "3">>,
      <<"T", "P", "S", "5", "4", "3", "4", "0">>,
      <<"L", "M", "3", "1", "7">>,
      <<"B", "M", "E", "2", "8", "0">>,
      <<"U", "N", "K", "N", "O", "W", "N", "1", "2", "3">>,
      <<"X", "Y", "Z", "9", "9", "9">> }

\* fragments of ids, in either case, that ids are drawn from
IdFragments ==
    { <<"S", "T", "M", "3", "2">>,
      <<"e", "s", "p", "3", "2">>,
      <<"n", "R", "f">>,
      <<"M", "S", "P", "4", "3", "0">>,
      <<"t", "p", "s">>,
      <<"L", "M">>,
      <<"M", "a", "x">>,
      <<"l", "t">>,
      <<"B", "M", "E">>,
      <<"b", "m", "p">>,
      <<"m", "p", "u">>,
      <<"L", "s", "m">>,
      <<"L">>,
      <<"M">>,
      <<"7">>,
      <<"-">> }

RECURSIVE Concat(_)
Concat(parts) == IF parts = <<>> THEN <<>> ELSE Head(parts) \o Concat(Tail(parts))

ComponentIds ==
    TestIds \cup { Concat(parts) : parts \in SeqsUpTo(IdFragments, MaxIdTokens) }

\* a caller calls _detect_component_type (line 29)
DetectComponentType ==
    /\ det_pc = "idle"
    /\ \E id \in ComponentIds :
          /\ component_id' = id
          /\ det_ret' = DetectComponentTypeOf(id)
    /\ det_pc' = "done"
    /\ UNCHANGED <<libraryVars, pdfVars, supplyVars, patentVars, assistVars, sessionVars,
                   cacheVars>>

NextDetect == DetectComponentType

SpecDetect == Init /\ [][NextDetect]_vars

\* ================================================================ assist
\* app.py, EEResearchScout.assist.  The calls on response_handler return
\* normally; a stage is one of the calls _analyze_query, _search_research,
\* _analyze_components, check_availability and _generate_analysis.

\* prompts: a query is a sequence of characters
UserQueries ==
    { <<"G", "a", "N", " ", "F", "E", "T">>,
      <<"S", "u", "p", "p", "l", "y", " ", "o", "f", " ", "G", "a", "N">>,
      <<"A", "V", "A", "I", "L", "A", "B", "I", "L", "I", "T", "Y">>,
      <<"s", "t", "m", "3", "2", " ", "a", "v", "a", "i", "l", "a", "b", "i", "l", "i", "t", "y", "?">>,
      <<"s", "u", "p", "p", " ", "l", "y">> }

\* what _analyze_query returns: the fallback of lines 266-271, analyses that
\* list components, and a JSON object without "domains"
QueryAnalyses ==
    { [domains |-> <<"general">>, components |-> <<>>,
       strategy |-> "innovation_search"],
      [domains |-> <<"power_management">>,
       components |-> << <<"T", "P", "S", "5", "4", "3", "4", "0">> >>,
       strategy |-> "component_comparison"],
      [domains |-> <<"embedded_systems">>,
       components |-> << <<"S", "T", "M", "3", "2", "F", "4", "0", "7">>, <<"B", "M", "E", "2", "8", "0">>,
                         <<"L", "M", "3", "1", "7">>, <<"X", "Y", "Z", "9", "9", "9">> >>,
       strategy |-> "component_comparison"],
      [domains |-> <<>>, strategy |-> "innovation_search"],
      [components |-> << <<"L", "M", "3", "1", "7">> >>] }
\* a JSON object whose components field is null
NullComponentsAnalysis ==
    [domains |-> <<"general">>, components |-> None,
     strategy |-> "innovation_search"]

\* what search_research_papers returns (research_tools.py lines 30-62)
ResearchResults ==
    { [papers |-> <<>>, top_sources |-> <<>>],
      [papers |-> << [title |-> "GaN review", year |-> 2024] >>,
       top_sources |-> <<"arXiv">>],
      [papers |-> << [title |-> "GaN review", year |-> 2024],
                     [title |-> "SiC drivers", year |-> 2023] >>,
       top_sources |-> <<"arXiv", "Semantic Scholar">>] }

\* bool(x) of a list or None
Truthy(v) == IF IsNone(v) THEN FALSE ELSE v # <<>>

\* the calls on the handler
TextBlock(name) == [call |-> "emit_text_block", name |-> name]
Json(name, payload) == [call |-> "emit_json", name |-> name, payload |-> payload]
CreateTextStream(name) == [call |-> "create_text_stream", name |-> name]
EmitChunk(name, k) == [call |-> "emit_chunk", name |-> name, chunk |-> k]
StreamComplete(name) == [call |-> "stream.complete", name |-> name]
EmitError(name, stage) == [call |-> "emit_error", name |-> name, message |-> stage]
Complete == [call |-> "complete", name |-> "handler"]

\* an error path that forgets to complete the handler
ErrorCallsWithoutComplete(stage) == << EmitError("ERROR", stage) >>

\* lines 238-242
ErrorCalls(stage) == << EmitError("ERROR", stage), Complete >>

\* the query tested as it was given
MentionsSupplyAsGiven(query) ==
    \/ Contains(query, <<"a", "v", "a", "i", "l", "a", "b", "i", "l", "i", "t", "y">>)
    \/ Contains(query, <<"s", "u", "p", "p", "l", "y">>)

\* line 203
MentionsSupply(query) ==
    \/ Contains(Lower(query), <<"a", "v", "a", "i", "l", "a", "b", "i", "l", "i", "t", "y">>)
    \/ Contains(Lower(query), <<"s", "u", "p", "p", "l", "y">>)

\* lines 281-289
AnalyzeComponentsOf(comps) ==
    [component \in Elements(Take(comps, 3)) |->
        [component |-> component, manufacturer |-> "Unknown",
         type |-> DetectComponentTypeOf(component), status |-> "placeholder"]]

\* lines 219-224: the calls up to the next stage, _generate_analysis
ToGenerate(calls) ==
    [calls |-> calls \o << TextBlock("GENERATING"),
                           CreateTextStream("FINAL_RESPONSE") >>,
     pc |-> "generate"]

\* lines 203-207
ToSupply(calls, query) ==
    IF MentionsSupply(query)
    THEN [calls |-> Append(calls, TextBlock("SUPPLY_CHAIN")), pc |-> "supply"]
    ELSE ToGenerate(calls)

\* lines 188-192
ToComponents(calls, query, analysis) ==
    IF Truthy(Get(analysis, "components", None))
    THEN [calls |-> Append(calls, TextBlock("COMPONENT_ANALYSIS")),
          pc |-> "components"]
    ELSE ToSupply(calls, query)

\* lines 150-156
Assist ==
    /\ as_pc = "idle"
    /\ \E q \in UserQueries : user_query' = q
    /\ handler_calls' = Append(handler_calls, TextBlock("ANALYSIS"))
    /\ as_pc' = "analyze"
    /\ UNCHANGED <<query_analysis, research_results, as_chunks, as_failed,
                   libraryVars, pdfVars, supplyVars, patentVars, detectVars,
                   sessionVars, cacheVars>>

\* lines 158-172: _analyze_query returns; a result without "domains" or
\* "strategy" raises KeyError at lines 163-164, before emit_json is called
AnalyzeQueryReturns ==
    /\ as_pc = "analyze"
    /\ \/ \E qa \in QueryAnalyses : query_analysis' = qa
       \/ query_analysis' = NullComponentsAnalysis
    /\ IF {"domains", "strategy"} \subseteq DOMAIN query_analysis'
       THEN /\ handler_calls' = handler_calls \o
                  << Json("QUERY_ANALYSIS",
                          [domains |-> query_analysis'.domains,
                           strategy |-> query_analysis'.strategy,
                           geographic_focus |-> <<"EU", "Asia">>]),
                     TextBlock("RESEARCH") >>
            /\ as_pc' = "research"
            /\ UNCHANGED as_failed
       ELSE /\ as_pc' = "except"
            /\ as_failed' = "query analysis"
            /\ UNCHANGED handler_calls
    /\ UNCHANGED <<user_query, research_results, as_chunks,
                   libraryVars, pdfVars, supplyVars, patentVars, detectVars,
                   sessionVars, cacheVars>>

\* lines 174-192: _search_research returns
SearchResearchReturns ==
    /\ as_pc = "research"
    /\ \E rr \in ResearchResults :
          /\ research_results' = rr
          /\ LET sources ==
                    IF Truthy(Get(rr, "papers", None))
                    THEN << Json("SOURCES",
                              [papers_found |-> Len(Get(rr, "papers", <<>>)),
                               top_sources |-> Get(rr, "top_sources", <<>>)]) >>
                    ELSE <<>>
                 to == ToComponents(handler_calls \o sources, user_query,
                                    query_analysis)
             IN  /\ handler_calls' = to.calls
                 /\ as_pc' = to.pc
    /\ UNCHANGED <<user_query, query_analysis, as_chunks, as_failed,
                   libraryVars, pdfVars, supplyVars, patentVars, detectVars,
                   sessionVars, cacheVars>>

\* lines 194-207: _analyze_components returns
AnalyzeComponentsReturns ==
    /\ as_pc = "components"
    /\ LET component_data == AnalyzeComponentsOf(query_analysis.components)
           to == ToSupply(Append(handler_calls,
                                 Json("COMPONENTS", component_data)),
                          user_query)
       IN  /\ handler_calls' = to.calls
           /\ as_pc' = to.pc
    /\ UNCHANGED <<user_query, query_analysis, research_results, as_chunks,
                   as_failed, libraryVars, pdfVars, supplyVars, patentVars, detectVars,
                   sessionVars, cacheVars>>

\* lines 209-224: check_availability returns; on a null components field its
\* loop raises TypeError
CheckAvailabilityReturns ==
    /\ as_pc = "supply"
    /\ LET comps == Get(query_analysis, "components", <<>>)
       IN  IF IsNone(comps)
           THEN /\ as_pc' = "except"
                /\ as_failed' = "supply check"
                /\ UNCHANGED handler_calls
           ELSE \E ts \in Timestamps :
                  LET supply_data ==
                          [timestamp |-> ts, region |-> "both",
                           components |-> AvailabilityOf(comps),
                           summary |-> [total_checked |-> Len(comps)]]
                      to == ToGenerate(Append(handler_calls,
                                       Json("SUPPLY_STATUS", supply_data)))
                  IN  /\ handler_calls' = to.calls
                      /\ as_pc' = to.pc
                      /\ UNCHANGED as_failed
    /\ UNCHANGED <<user_query, query_analysis, research_results, as_chunks,
                   libraryVars, pdfVars, supplyVars, patentVars, detectVars,
                   sessionVars, cacheVars>>

\* lines 226-231: the generator yields a chunk
GenerateChunk ==
    /\ as_pc = "generate"
    /\ as_chunks < MaxChunks
    /\ as_chunks' = as_chunks + 1
    /\ handler_calls' = Append(handler_calls,
                               EmitChunk("FINAL_RESPONSE", as_chunks + 1))
    /\ UNCHANGED <<as_pc, user_query, query_analysis, research_results,
                   as_failed, libraryVars, pdfVars, supplyVars, patentVars, detectVars,
                   sessionVars, cacheVars>>

\* lines 233-234: the generator is exhausted
GenerateEnds ==
    /\ as_pc = "generate"
    /\ handler_calls' = handler_calls \o
                           << StreamComplete("FINAL_RESPONSE"), Complete >>
    /\ as_pc' = "done"
    /\ UNCHANGED <<user_query, query_analysis, research_results, as_chunks,
                   as_failed, libraryVars, pdfVars, supplyVars, patentVars, detectVars,
                   sessionVars, cacheVars>>

\* the stage that runs at a position
StageAt(pc) ==
    CASE pc = "analyze" -> "query analysis"
      [] pc = "research" -> "research search"
      [] pc = "components" -> "component analysis"
      [] pc = "supply" -> "supply check"
      [] pc = "generate" -> "answer generation"

\* line 236: the stage under way raises an Exception
StageRaises ==
    /\ as_pc \in {"analyze", "research", "components", "supply", "generate"}
    /\ as_failed' = StageAt(as_pc)
    /\ as_pc' = "except"
    /\ UNCHANGED <<user_query, query_analysis, research_results, as_chunks,
                   handler_calls, libraryVars, pdfVars, supplyVars, patentVars,
                   detectVars, sessionVars, cacheVars>>

\* lines 236-242
HandleError ==
    /\ as_pc = "except"
    /\ handler_calls' = handler_calls \o ErrorCalls(as_failed)
    /\ as_pc' = "done"
    /\ UNCHANGED <<user_query, query_analysis, research_results, as_chunks,
                   as_failed, libraryVars, pdfVars, supplyVars, patentVars, detectVars,
                   sessionVars, cacheVars>>

NextAssist ==
    \/ Assist
    \/ AnalyzeQueryReturns
    \/ SearchResearchReturns
    \/ AnalyzeComponentsReturns
    \/ CheckAvailabilityReturns
    \/ GenerateChunk
    \/ GenerateEnds
    \/ StageRaises
    \/ HandleError

SpecAssist == Init /\ [][NextAssist]_vars

\* ======================================================= database sessions
\* database/connection.py, DatabaseManager.get_session.  The block of the
\* with statement ends normally or raises an Exception; commit() succeeds
\* or raises; rollback() and close() return.

\* an except clause that only re-raises
AfterExceptReraiseOnly(sess) == [sess EXCEPT !.pc = "finally"]

\* lines 79-82: rollback, then re-raise through the finally clause
AfterExcept(sess) == [sess EXCEPT !.rollbacks = @ + 1, !.pc = "finally"]

\* lines 75-77: a session is made and handed to the block
GetSession(s) ==
    /\ sessions[s].pc = "none"
    /\ sessions' = [sessions EXCEPT ![s].pc = "block"]
    /\ UNCHANGED <<libraryVars, pdfVars, supplyVars, patentVars, detectVars, assistVars,
                   cacheVars>>

\* line 77: the block ends without an exception
BlockEnds(s) ==
    /\ sessions[s].pc = "block"
    /\ sessions' = [sessions EXCEPT ![s].pc = "commit"]
    /\ UNCHANGED <<libraryVars, pdfVars, supplyVars, patentVars, detectVars, assistVars,
                   cacheVars>>

\* line 77: the block raises, the exception is thrown into the generator
BlockRaises(s) ==
    /\ sessions[s].pc = "block"
    /\ sessions' = [sessions EXCEPT ![s].pc = "except", ![s].exc = "BlockError"]
    /\ UNCHANGED <<libraryVars, pdfVars, supplyVars, patentVars, detectVars, assistVars,
                   cacheVars>>

\* line 78: commit() returns
SessionCommit(s) ==
    /\ sessions[s].pc = "commit"
    /\ sessions' = [sessions EXCEPT ![s].commits = @ + 1,
                                    ![s].committed = TRUE,
                                    ![s].pc = "finally"]
    /\ UNCHANGED <<libraryVars, pdfVars, supplyVars, patentVars, detectVars, assistVars,
                   cacheVars>>

\* line 78: commit() raises
SessionCommitRaises(s) ==
    /\ sessions[s].pc = "commit"
    /\ sessions' = [sessions EXCEPT ![s].commits = @ + 1,
                                    ![s].exc = "CommitError",
                                    ![s].pc = "except"]
    /\ UNCHANGED <<libraryVars, pdfVars, supplyVars, patentVars, detectVars, assistVars,
                   cacheVars>>

\* lines 79-82
SessionRollback(s) ==
    /\ sessions[s].pc = "except"
    /\ sessions' = [sessions EXCEPT ![s] = AfterExcept(@)]
    /\ UNCHANGED <<libraryVars, pdfVars, supplyVars, patentVars, detectVars, assistVars,
                   cacheVars>>

\* lines 83-84: close, then leave: normally, or with the exception under way
SessionClose(s) ==
    /\ sessions[s].pc = "finally"
    /\ sessions' = [sessions EXCEPT
                      ![s].closes = @ + 1,
                      ![s].pc = IF sessions[s].exc = "none" THEN "returned"
                                ELSE "raised"]
    /\ UNCHANGED <<libraryVars, pdfVars, supplyVars, patentVars, detectVars, assistVars,
                   cacheVars>>

NextSessions ==
    \E s \in SessionIds :
       \/ GetSession(s)
       \/ BlockEnds(s)
       \/ BlockRaises(s)
       \/ SessionCommit(s)
       \/ SessionCommitRaises(s)
       \/ SessionRollback(s)
       \/ SessionClose(s)

SpecSessions == Init /\ [][NextSessions]_vars

\* ========================================================= response cache
\* database/operations.py, get_cached_response and cache_response, each in
\* a session of get_session on a PostgreSQL database at its default
\* isolation level: a statement reads the committed rows, a row written by
\* a transaction is locked until the transaction ends, and the unique index
\* on query_hash (models.py line 198) makes an INSERT wait for a pending
\* INSERT of the same hash and fail once a row with that hash is committed.

CacheQueries == {"gan fet", "ldo noise"}

\* lines 180 and 211: hashlib.sha256(query.encode()).hexdigest()
Sha256(query) ==
    CASE query = "gan fet" -> "5f0c"
      [] query = "ldo noise" -> "a91e"
      [] OTHER -> "e3b0"

\* the response a caller stores
ResponseOf(c) == IF c = 1 THEN "A" ELSE "B"

\* line 208: ttl_hours = 24, one step of the clock
TtlDefault == 1

\* an index that lets every INSERT through
UniqueViolationNever(table, query_hash) == FALSE

\* models.py line 198: unique=True
UniqueViolation(table, query_hash) ==
    \E i \in 1..Len(table) : table[i].query_hash = query_hash

\* .filter_by(query_hash=...).first(): the id of the first row, 0 for None
FirstByHash(table, query_hash) ==
    IF \E i \in 1..Len(table) : table[i].query_hash = query_hash
    THEN Min({ i \in 1..Len(table) : table[i].query_hash = query_hash })
    ELSE 0

\* lines 183-191: the first row with the hash that has not expired
FirstLive(table, query_hash, t) ==
    LET live == { i \in 1..Len(table) :
                    /\ table[i].query_hash = query_hash
                    /\ table[i].expires_at > t }
    IN  IF live = {} THEN 0 ELSE Min(live)

\* another transaction holds the lock of row i
RowLocked(c, i) ==
    \E d \in Callers \ {c} :
       /\ cache_frames[d].pc = "commit"
       /\ cache_frames[d].pending \in {"update", "hit"}
       /\ cache_frames[d].cached = i

\* another transaction has inserted the hash and not ended
InsertPending(c, query_hash) ==
    \E d \in Callers \ {c} :
       /\ cache_frames[d].pc = "commit"
       /\ cache_frames[d].pending = "insert"
       /\ cache_frames[d].query_hash = query_hash

CanCall(c) ==
    /\ cache_frames[c].pc \in {"idle", "done", "raised"}
    /\ cache_calls < MaxCacheCalls

\* the clock advances
Tick ==
    /\ utcnow < MaxClock
    /\ utcnow' = utcnow + 1
    /\ UNCHANGED <<cached_responses, cache_frames, cache_calls, libraryVars, pdfVars,
                   supplyVars, patentVars, detectVars, assistVars, sessionVars>>

\* lines 211-214, connection.py line 75
CacheResponse(c) ==
    /\ CanCall(c)
    /\ \E query \in CacheQueries :
          cache_frames' = [cache_frames EXCEPT ![c] =
             [IdleCall EXCEPT !.pc = "query", !.op = "cache",
                              !.query = query, !.response = ResponseOf(c),
                              !.query_hash = Sha256(query),
                              !.expires_at = utcnow + TtlDefault]]
    /\ cache_calls' = cache_calls + 1
    /\ UNCHANGED <<utcnow, cached_responses, libraryVars, pdfVars, supplyVars,
                   patentVars, detectVars, assistVars, sessionVars>>

\* lines 217-219
CacheLookup(c) ==
    /\ cache_frames[c].pc = "query"
    /\ cache_frames[c].op = "cache"
    /\ cache_frames' = [cache_frames EXCEPT
          ![c].cached = FirstByHash(cached_responses, cache_frames[c].query_hash),
          ![c].pc = "flush"]
    /\ UNCHANGED <<utcnow, cached_responses, cache_calls, libraryVars, pdfVars,
                   supplyVars, patentVars, detectVars, assistVars, sessionVars>>

\* lines 221-240: the UPDATE or the INSERT of the flush; an IntegrityError
\* is caught and logged at line 239 and leaves the session unusable
CacheFlush(c) ==
    /\ cache_frames[c].pc = "flush"
    /\ cache_frames[c].op = "cache"
    /\ LET f == cache_frames[c]
       IN  IF f.cached # 0
           THEN /\ ~RowLocked(c, f.cached)
                /\ cache_frames' = [cache_frames EXCEPT
                      ![c].pending = "update", ![c].pc = "commit"]
           ELSE /\ ~InsertPending(c, f.query_hash)
                /\ IF UniqueViolation(cached_responses, f.query_hash)
                   THEN cache_frames' = [cache_frames EXCEPT
                           ![c].flush_failed = TRUE, ![c].pc = "commit"]
                   ELSE cache_frames' = [cache_frames EXCEPT
                           ![c].pending = "insert", ![c].pc = "commit"]
    /\ UNCHANGED <<utcnow, cached_responses, cache_calls, libraryVars, pdfVars,
                   supplyVars, patentVars, detectVars, assistVars, sessionVars>>

\* lines 180-182, connection.py line 75
GetCachedResponse(c) ==
    /\ CanCall(c)
    /\ \E query \in CacheQueries :
          cache_frames' = [cache_frames EXCEPT ![c] =
             [IdleCall EXCEPT !.pc = "query", !.op = "get", !.query = query,
                              !.query_hash = Sha256(query)]]
    /\ cache_calls' = cache_calls + 1
    /\ UNCHANGED <<utcnow, cached_responses, libraryVars, pdfVars, supplyVars,
                   patentVars, detectVars, assistVars, sessionVars>>

\* lines 183-201: the query; without a row the block returns None
GetLookup(c) ==
    /\ cache_frames[c].pc = "query"
    /\ cache_frames[c].op = "get"
    /\ LET cached == FirstLive(cached_responses, cache_frames[c].query_hash,
                               utcnow)
       IN  cache_frames' = [cache_frames EXCEPT
              ![c].cached = cached,
              ![c].ret = IF cached = 0 THEN None
                         ELSE cached_responses[cached].response_text,
              ![c].pc = IF cached = 0 THEN "commit" ELSE "flush"]
    /\ UNCHANGED <<utcnow, cached_responses, cache_calls, libraryVars, pdfVars,
                   supplyVars, patentVars, detectVars, assistVars, sessionVars>>

\* lines 193-199: the UPDATE of hit_count and last_accessed
GetFlush(c) ==
    /\ cache_frames[c].pc = "flush"
    /\ cache_frames[c].op = "get"
    /\ ~RowLocked(c, cache_frames[c].cached)
    /\ cache_frames' = [cache_frames EXCEPT
          ![c].pending = "hit", ![c].pc = "commit"]
    /\ UNCHANGED <<utcnow, cached_responses, cache_calls, libraryVars, pdfVars,
                   supplyVars, patentVars, detectVars, assistVars, sessionVars>>

\* the table after the transaction of frame f has committed
Committed(table, f) ==
    CASE f.pending = "insert" ->
            Append(table, [query_hash |-> f.query_hash,
                           query_text |-> f.query,
                           response_text |-> f.response,
                           expires_at |-> f.expires_at,
                           hit_count |-> 1])
      [] f.pending = "update" ->
            [table EXCEPT ![f.cached].response_text = f.response,
                          ![f.cached].expires_at = f.expires_at]
      [] f.pending = "hit" ->
            [table EXCEPT ![f.cached].hit_count = @ + 1]
      [] OTHER -> table

\* connection.py lines 78-84: commit(), which raises after a failed flush
\* and has the session rolled back; then close(), and the call returns or
\* raises
CacheCommit(c) ==
    /\ cache_frames[c].pc = "commit"
    /\ IF cache_frames[c].flush_failed
       THEN /\ cache_frames' = [cache_frames EXCEPT
                  ![c].pending = "none", ![c].pc = "raised"]
            /\ UNCHANGED cached_responses
       ELSE /\ cached_responses' = Committed(cached_responses, cache_frames[c])
            /\ cache_frames' = [cache_frames EXCEPT
                  ![c].pending = "none", ![c].pc = "done"]
    /\ UNCHANGED <<utcnow, cache_calls, libraryVars, pdfVars, supplyVars, patentVars,
                   detectVars, assistVars, sessionVars>>

NextCache ==
    \/ Tick
    \/ \E c \in Callers :
          \/ CacheResponse(c)
          \/ CacheLookup(c)
          \/ CacheFlush(c)
          \/ GetCachedResponse(c)
          \/ GetLookup(c)
          \/ GetFlush(c)
          \/ CacheCommit(c)

SpecCache == Init /\ [][NextCache]_vars

\* ================================================= parse_pdf_datasheet
\* tools/datasheet_parser.py lines 24-59.  A page is what extract_text()
\* does on it: it returns a text, returns None or raises.

TextPage(text) == [extract_text |-> "returns", text |-> text]
NonePage == [extract_text |-> "none", text |-> <<>>]
RaisingPage == [extract_text |-> "raises", text |-> <<>>]

VoltagePage == TextPage(<<"3", ".", "3", "V">>)
SixVoltagesPage == TextPage(<<"1", "V", " ", "2", "V", " ", "3", "V", " ", "4", "V", " ", "5", "V", " ", "6", "V">>)
CurrentPage == TextPage(<<"5", "m", "A">>)
FeaturePage == TextPage(<<"-", " ", "L", "o", "w", " ", "p", "o", "w", "e", "r", " ", "d", "r", "a", "i", "n", "\n", "m", "e", "d", "i", "c", "a", "l", " ", "9", "V">>)
PlainPage == TextPage(<<"n", "o", " ", "n", "u", "m", "b", "e", "r", "s">>)
EmptyPage == TextPage(<<>>)

Pages == {VoltagePage, SixVoltagesPage, CurrentPage, FeaturePage, NonePage,
          RaisingPage}
FillPages == {PlainPage, EmptyPage}

\* the whole list of pages
AllPages(pages) == pages

\* line 43: pdf.pages[:10]
PageLimit == 10
FirstPages(pages) == Take(pages, PageLimit)

\* documents of up to MaxPdfPages pages, drawn freely on the first page
\* and on the two pages around the limit of line 43
Pdfs ==
    { [pages |-> [k \in 1..n |->
                    CASE k = 1 -> a
                      [] k = PageLimit -> b
                      [] k = PageLimit + 1 -> c
                      [] OTHER -> fill]] :
        n \in 0..MaxPdfPages, a \in Pages, b \in Pages, c \in Pages,
        fill \in FillPages }

RECURSIVE SpecificationsUpTo(_, _)
\* lines 63-68: the first k patterns
SpecificationsUpTo(text, k) ==
    IF k = 0 THEN <<>>
    ELSE StoreMatches(SpecificationsUpTo(text, k - 1), SpecTypes[k],
                      FindAll(spec_patterns[SpecTypes[k]], text))

\* lines 61-70: _extract_specifications(text)
ExtractedSpecifications(text) == SpecificationsUpTo(text, Len(SpecTypes))

RECURSIVE FeaturesUpTo(_, _)
\* lines 77-81: the first k lines
FeaturesUpTo(ls, k) ==
    IF k = 0 THEN <<>>
    ELSE IF StartsWithBullet(ls[k]) /\ LongEnough(CleanFeature(ls[k]))
         THEN Append(FeaturesUpTo(ls, k - 1), CleanFeature(ls[k]))
         ELSE FeaturesUpTo(ls, k - 1)

\* lines 72-83: _extract_features(text)
ExtractedFeatures(text) ==
    CapFeatures(FeaturesUpTo(SplitLines(text), Len(SplitLines(text))))

RECURSIVE ApplicationsUpTo(_, _)
\* lines 96-98: the first k keywords
ApplicationsUpTo(lowered, k) ==
    IF k = 0 THEN <<>>
    ELSE IF KeywordFound(app_keywords[k], lowered)
         THEN Append(ApplicationsUpTo(lowered, k - 1), app_keywords[k])
         ELSE ApplicationsUpTo(lowered, k - 1)

\* lines 85-100: _extract_applications(text)
ExtractedApplications(text) ==
    ApplicationsUpTo(Lower(text), Len(app_keywords))

\* dict.update: the keys of e take the values of e
Update(d, e) == e @@ d

\* lines 44-53: one page whose extract_text() has returned
PageProcessed(d, num, page) ==
    IF page.extract_text = "none" \/ page.text = <<>>
    THEN d
    ELSE LET text == page.text
             first == IF num = 0
                      THEN [d EXCEPT
                              !.features = ExtractedFeatures(text),
                              !.applications = ExtractedApplications(text)]
                      ELSE d
         IN  [first EXCEPT
                !.raw_text = @ \o text \o <<"\n">>,
                !.specifications = Update(@, ExtractedSpecifications(text))]

\* lines 57-59: {"error": str(e)}
ErrorResult(e) == [error |-> e]

PdfArguments == {"datasheet.pdf", "http://example.com/datasheet.pdf"}

\* 'http' is a prefix of the argument
StartsWithHttp(arg) == arg = "http://example.com/datasheet.pdf"

PdfIdle == pdf_pc \in {"idle", "done"}

\* lines 28-33, with a str
ParsePdfDatasheet ==
    /\ PdfIdle
    /\ \E arg \in PdfArguments :
          /\ pdf_path_or_url' = arg
          /\ pdf_pc' = IF StartsWithHttp(arg) THEN "get" ELSE "open"
    /\ pdf' = NoPdf
    /\ pdf_pages' = <<>>
    /\ page_num' = 0
    /\ extracted_data' = NewExtractedData
    /\ pdf_ret' = None
    /\ UNCHANGED <<libraryVars, supplyVars, patentVars, detectVars,
                   assistVars, sessionVars, cacheVars>>

\* line 29 with an argument that has no startswith: AttributeError, caught
\* at line 57
ParsePdfDatasheetNotStr ==
    /\ PdfIdle
    /\ pdf_path_or_url' = None
    /\ pdf' = NoPdf
    /\ pdf_pages' = <<>>
    /\ page_num' = 0
    /\ extracted_data' = NewExtractedData
    /\ pdf_ret' = ErrorResult("AttributeError")
    /\ pdf_pc' = "done"
    /\ UNCHANGED <<libraryVars, supplyVars, patentVars, detectVars,
                   assistVars, sessionVars, cacheVars>>

\* lines 30-31: the download returns
RequestsGet ==
    /\ pdf_pc = "get"
    /\ pdf_pc' = "open"
    /\ UNCHANGED <<pdf_path_or_url, pdf, pdf_pages, page_num, extracted_data,
                   pdf_ret, libraryVars, supplyVars, patentVars, detectVars,
                   assistVars, sessionVars, cacheVars>>

\* line 30 raises; lines 57-59
RequestsGetRaises ==
    /\ pdf_pc = "get"
    /\ pdf_ret' = ErrorResult("ConnectionError")
    /\ pdf_pc' = "done"
    /\ UNCHANGED <<pdf_path_or_url, pdf, pdf_pages, page_num, extracted_data,
                   libraryVars, supplyVars, patentVars, detectVars,
                   assistVars, sessionVars, cacheVars>>

\* lines 35-43: the dict, the document and the slice of its pages
PdfplumberOpen ==
    /\ pdf_pc = "open"
    /\ \E doc \in Pdfs :
          /\ pdf' = doc
          /\ pdf_pages' = FirstPages(doc.pages)
    /\ extracted_data' = NewExtractedData
    /\ page_num' = 0
    /\ pdf_pc' = "pages"
    /\ UNCHANGED <<pdf_path_or_url, pdf_ret, libraryVars, supplyVars,
                   patentVars, detectVars, assistVars, sessionVars, cacheVars>>

\* line 42 raises; lines 57-59
PdfplumberOpenRaises ==
    /\ pdf_pc = "open"
    /\ extracted_data' = NewExtractedData
    /\ pdf_ret' = ErrorResult("PDFSyntaxError")
    /\ pdf_pc' = "done"
    /\ UNCHANGED <<pdf_path_or_url, pdf, pdf_pages, page_num, libraryVars,
                   supplyVars, patentVars, detectVars, assistVars,
                   sessionVars, cacheVars>>

\* lines 43-53: one page
PageLoop ==
    /\ pdf_pc = "pages"
    /\ page_num < Len(pdf_pages)
    /\ pdf_pages[page_num + 1].extract_text # "raises"
    /\ extracted_data' =
          PageProcessed(extracted_data, page_num, pdf_pages[page_num + 1])
    /\ page_num' = page_num + 1
    /\ UNCHANGED <<pdf_pc, pdf_path_or_url, pdf, pdf_pages, pdf_ret,
                   libraryVars, supplyVars, patentVars, detectVars,
                   assistVars, sessionVars, cacheVars>>

\* line 44 raises; lines 57-59
PageRaises ==
    /\ pdf_pc = "pages"
    /\ page_num < Len(pdf_pages)
    /\ pdf_pages[page_num + 1].extract_text = "raises"
    /\ pdf_ret' = ErrorResult("PDFTextExtractionError")
    /\ pdf_pc' = "done"
    /\ UNCHANGED <<pdf_path_or_url, pdf, pdf_pages, page_num, extracted_data,
                   libraryVars, supplyVars, patentVars, detectVars,
                   assistVars, sessionVars, cacheVars>>

\* line 55
ParsePdfDatasheetReturn ==
    /\ pdf_pc = "pages"
    /\ page_num = Len(pdf_pages)
    /\ pdf_ret' = extracted_data
    /\ pdf_pc' = "done"
    /\ UNCHANGED <<pdf_path_or_url, pdf, pdf_pages, page_num, extracted_data,
                   libraryVars, supplyVars, patentVars, detectVars,
                   assistVars, sessionVars, cacheVars>>

NextPdf ==
    \/ ParsePdfDatasheet
    \/ ParsePdfDatasheetNotStr
    \/ RequestsGet
    \/ RequestsGetRaises
    \/ PdfplumberOpen
    \/ PdfplumberOpenRaises
    \/ PageLoop
    \/ PageRaises
    \/ ParsePdfDatasheetReturn

SpecPdf == Init /\ [][NextPdf]_vars

\* calls of either class
NextCalls == Next \/ NextParser

SpecCalls == Init /\ [][NextCalls]_vars

\* ------------------------------------------------------------ properties
Abs(x) == IF x < 0 THEN -x ELSE x

\* t is x rounded to ndigits decimals: a multiple of 10^-ndigits at most half
\* a step away from x
IsRounded(t, x, ndigits) ==
    /\ t % Pow10(7 - ndigits) = 0
    /\ 2 * Abs(t - x) <= Pow10(7 - ndigits)

\* the step function of the volume, in hundredths
StepDiscount(v) ==
    IF v >= 100000 THEN 40
    ELSE IF v >= 10000 THEN 55
    ELSE IF v >= 1000 THEN 75
    ELSE 100

PriceOf(c) == IF "unit_price" \in DOMAIN c THEN c.unit_price ELSE 0
QuantityOf(c) == IF "quantity" \in DOMAIN c THEN c.quantity ELSE 1

\* exact unit_price * factor and unit_price * factor * quantity of an input line
ExactDiscounted(c, v) == (PriceOf(c) \div 100) * StepDiscount(v)
ExactLineCost(c, v) == ExactDiscounted(c, v) * QuantityOf(c)

RECURSIVE ExactTotal(_, _)
ExactTotal(bom, v) ==
    IF bom = <<>> THEN 0
    ELSE ExactLineCost(Head(bom), v) + ExactTotal(Tail(bom), v)

RECURSIVE SumLineCost(_)
SumLineCost(out) ==
    IF out = <<>> THEN 0
    ELSE Head(out).line_cost + SumLineCost(Tail(out))

ExampleBom ==
    << [part_number |-> "STM32H743", unit_price |-> 85000000, quantity |-> 1],
       [part_number |-> "nRF52840",  unit_price |-> 32000000, quantity |-> 2] >>

\* C1 as stated: total_cost of estimate_bom_cost is the sum of the line_cost
\* values of the returned lines, rounded to 2 decimals.
C1_TotalIsSumOfReturnedLines ==
    est_pc = "done" =>
        IsRounded(est_ret.total_cost, SumLineCost(est_ret.components), 2)

\* C1 amended: total_cost of estimate_bom_cost is the sum of the unrounded
\* line costs unit_price * discount_factor * quantity, rounded to 2 decimals;
\* for the example BOM at volume 1000 that sum is 11.175.
C1_TotalIsRoundedExactSum ==
    est_pc = "done" =>
        /\ IsRounded(est_ret.total_cost, ExactTotal(components, volume), 2)
        /\ (components = ExampleBom /\ volume = 1000) =>
               /\ est_ret.components[1].line_cost = 63750000
               /\ est_ret.components[2].line_cost = 48000000
               /\ est_ret.total_cost \in {111700000, 111800000}

C1_Witness ==
    /\ est_pc = "done"
    /\ components = ExampleBom
    /\ volume = 1000
    /\ est_ret.total_cost = 111800000

\* C2: _get_volume_discount(v) is 0.40 from 100000, 0.55 from 10000, 0.75 from
\* 1000 and 1.0 below (also below 100, at zero and for negative v), and a call
\* with a volume at least as large never returns a larger factor.
C2_DiscountIsStepFunction ==
    /\ [](gvd_pc = "done" => gvd_ret = StepDiscount(gvd_volume))
    /\ [][(gvd_pc = "done" /\ gvd_volume' >= gvd_volume) => gvd_ret' <= gvd_ret]_vars

C2_Witness ==
    /\ gvd_pc = "done"
    /\ gvd_volume = 1000
    /\ gvd_ret = 75

\* C3: the output lines of estimate_bom_cost match the input lines one to
\* one and in order (same part_number and quantity), and every line uses the
\* one discount factor of the call's volume: discounted_price is
\* unit_price * factor and line_cost is unit_price * factor * quantity, each
\* rounded to 4 decimals.
C3_LinesMatchInput ==
    est_pc = "done" =>
        /\ Len(est_ret.components) = Len(components)
        /\ \A k \in 1..Len(components) :
              LET c == components[k]
                  o == est_ret.components[k]
              IN  /\ "part_number" \in DOMAIN c => o.part_number = c.part_number
                  /\ "quantity" \in DOMAIN c => o.quantity = c.quantity
                  /\ IsRounded(o.discounted_price, ExactDiscounted(c, volume), 4)
                  /\ IsRounded(o.line_cost, ExactLineCost(c, volume), 4)

C3_Witness ==
    /\ est_pc = "done"
    /\ Len(components) = 3
    /\ volume = 1000
    /\ components[1] # components[2]
    /\ \E k \in 1..3 :
          est_ret.components[k].discounted_price # ExactDiscounted(components[k], volume)

\* C4: compare_alternatives returns the alternatives in ascending order of
\* total_cost, best_option is the first of them and costs no more than any
\* alternative, and best_option is None for an empty input.
C4_SortedAndBestFirst ==
    cmp_pc = "done" =>
        LET alts == cmp_ret.alternatives
        IN  /\ \A j \in 1..Len(alts), k \in 1..Len(alts) :
                  j < k => alts[j].total_cost <= alts[k].total_cost
            /\ component_alternatives = <<>> => cmp_ret.best_option = None
            /\ component_alternatives # <<>> =>
                  /\ cmp_ret.best_option = alts[1]
                  /\ \A k \in 1..Len(alts) :
                        cmp_ret.best_option.total_cost <= alts[k].total_cost

C4_Witness ==
    /\ cmp_pc = "done"
    /\ Len(cmp_ret.alternatives) = 3
    /\ cmp_ret.best_option.alternative = "Option 3"
    /\ cmp_ret.best_option.total_cost < cmp_ret.alternatives[3].total_cost

\* C5: savings is the total_cost of the most expensive alternative minus
\* that of the cheapest, a number of 2 decimals that is never negative, and
\* it is 0 with fewer than 2 alternatives.
C5_SavingsIsSpread ==
    cmp_pc = "done" =>
        LET totals == { cmp_ret.alternatives[k].total_cost :
                          k \in 1..Len(cmp_ret.alternatives) }
        IN  /\ cmp_ret.savings >= 0
            /\ cmp_ret.savings % Pow10(5) = 0
            /\ Len(component_alternatives) < 2 => cmp_ret.savings = 0
            /\ Len(component_alternatives) >= 2 =>
                  \E hi \in totals, lo \in totals :
                     /\ \A t \in totals : lo <= t /\ t <= hi
                     /\ cmp_ret.savings = hi - lo

C5_Witness ==
    /\ cmp_pc = "done"
    /\ Len(component_alternatives) = 3
    /\ cmp_ret.savings > 0
    /\ cmp_ret.alternatives[1].alternative # "Option 1"

\* ----- the patterns described without the matcher
AllIn(w, S) == \A k \in 1..Len(w) : w[k] \in S

\* one or more digits, then possibly a dot and further digits
NumberShape(w) ==
    /\ w # <<>>
    /\ w[1] \in Digits
    /\ \E n \in 1..Len(w) :
          /\ AllIn(SubSeq(w, 1, n), Digits)
          /\ \/ n = Len(w)
             \/ w[n + 1] = "." /\ AllIn(SubSeq(w, n + 2, Len(w)), Digits)

NumericPart(spec_type, w) ==
    \/ NumberShape(w)
    \/ spec_type = "temperature" /\ w # <<>> /\ w[1] = "-" /\ NumberShape(Tail(w))

Prefixed(prefixes, words) == { p \o w : p \in prefixes, w \in words }

\* the unit symbols of a category, in lower case
UnitWords ==
    [voltage |-> { <<"v">>, <<"v", "o", "l", "t">>, <<"v", "o", "l", "t", "s">> },
     current |-> Prefixed({ <<>>, <<"m">>, <<"MICRO_SIGN">> },
                    { <<"a">>, <<"a", "m", "p">>, <<"a", "m", "p", "s">> }),
     frequency |-> Prefixed({ <<>>, <<"k">>, <<"m">>, <<"g">> }, { <<"h", "z">> }),
     temperature |-> Prefixed({ <<>>, <<"DEGREE_SIGN">> }, { <<"c">> }),
     power |-> Prefixed({ <<>>, <<"m">>, <<"MICRO_SIGN">> },
                    { <<"w">>, <<"w", "a", "t", "t">>, <<"w", "a", "t", "t", "s">> }),
     efficiency |-> { <<"e", "f", "f", "i", "c", "i", "e", "n", "c", "y">>,
                      <<"e", "f", "f", ".">> }]

\* whitespace, then the unit; for efficiency whitespace, "%", whitespace, word
UnitPart(spec_type, w) ==
    \E k \in 0..Len(w) :
        /\ AllIn(SubSeq(w, 1, k), Whitespace)
        /\ IF spec_type = "efficiency"
           THEN /\ k < Len(w)
                /\ w[k + 1] = "%"
                /\ \E j \in (k + 1)..Len(w) :
                      /\ AllIn(SubSeq(w, k + 2, j), Whitespace)
                      /\ Lower(SubSeq(w, j + 1, Len(w))) \in UnitWords[spec_type]
           ELSE Lower(SubSeq(w, k + 1, Len(w))) \in UnitWords[spec_type]

\* text[s..g-1] is a numeric part and text[g..e-1] the unit behind it
GroupEnds(spec_type, text, s) ==
    { g \in (s + 1)..(Len(text) + 1) :
        /\ NumericPart(spec_type, SubSeq(text, s, g - 1))
        /\ \E e \in (g + 1)..(Len(text) + 1) :
              UnitPart(spec_type, SubSeq(text, g, e - 1)) }

MatchEnds(spec_type, text, g) ==
    { e \in (g + 1)..(Len(text) + 1) : UnitPart(spec_type, SubSeq(text, g, e - 1)) }

MatchStarts(spec_type, text, pos) ==
    { s \in pos..Len(text) :
        /\ text[s] \in Digits \cup {"-"}
        /\ GroupEnds(spec_type, text, s) # {} }

RECURSIVE ScanFrom(_, _, _)
\* the numeric parts of the matches met by a scan from pos: the leftmost
\* match, the longest one there, then on from its end
ScanFrom(spec_type, text, pos) ==
    LET starts == MatchStarts(spec_type, text, pos)
    IN  IF starts = {} THEN <<>>
        ELSE LET s == Min(starts)
                 g == Max(GroupEnds(spec_type, text, s))
                 e == Max(MatchEnds(spec_type, text, g))
             IN  <<SubSeq(text, s, g - 1)>> \o ScanFrom(spec_type, text, e)

\* C6: every category present in the result of extract_specifications has
\* between 1 and 5 values, every value occurs verbatim in the text, and a
\* category is present exactly if the text has a match for it.
C6_CategoriesBounded ==
    xs_pc = "done" =>
        /\ DOMAIN xs_ret \subseteq { SpecTypes[k] : k \in 1..Len(SpecTypes) }
        /\ \A k \in 1..Len(SpecTypes) :
              LET t == SpecTypes[k]
              IN  /\ t \in DOMAIN xs_ret <=> MatchStarts(t, xs_text, 1) # {}
                  /\ t \in DOMAIN xs_ret =>
                        /\ Len(xs_ret[t]) >= 1
                        /\ Len(xs_ret[t]) <= 5
                        /\ \A j \in 1..Len(xs_ret[t]) :
                              /\ xs_ret[t][j] # <<>>
                              /\ Contains(xs_text, xs_ret[t][j])

C6_Witness ==
    /\ xs_pc = "done"
    /\ "voltage" \in DOMAIN xs_ret
    /\ Len(xs_ret.voltage) = 5
    /\ Len(ScanFrom("voltage", xs_text, 1)) > 5
    /\ "efficiency" \notin DOMAIN xs_ret

\* C7: for each category extract_specifications returns the numeric parts,
\* without the unit, of the first min(5, n) of the n non-overlapping matches
\* that a left-to-right scan meets, in order of occurrence; for the text
\* "Operating Voltage: 3.3V to 5.5V" voltage is "3.3" then "5.5".
C7_FirstFiveNumericParts ==
    xs_pc = "done" =>
        /\ \A k \in 1..Len(SpecTypes) :
              LET t == SpecTypes[k]
                  all == ScanFrom(t, xs_text, 1)
                  n == IF Len(all) < 5 THEN Len(all) ELSE 5
              IN  IF all = <<>> THEN t \notin DOMAIN xs_ret
                  ELSE t \in DOMAIN xs_ret /\ xs_ret[t] = SubSeq(all, 1, n)
        /\ xs_text = ExampleText =>
              xs_ret.voltage = << <<"3", ".", "3">>, <<"5", ".", "5">> >>

C7_Witness ==
    /\ xs_pc = "done"
    /\ xs_text = ExampleText
    /\ xs_ret.voltage = << <<"3", ".", "3">>, <<"5", ".", "5">> >>

\* C8: extract_applications reports a keyword of the vocabulary exactly if
\* the keyword occurs in the text when letter case is ignored.
C8_KeywordIffOccursIgnoringCase ==
    xa_pc = "done" =>
        \A k \in 1..Len(app_keywords) :
            (\E j \in 1..Len(xa_ret) : xa_ret[j] = app_keywords[k])
            <=> Contains(Lower(xa_text), Lower(app_keywords[k]))

\* the line trimmed, without its first character and the whitespace behind it
WithoutLeadingGlyph(line) == Strip(Tail(Strip(line)))

\* C9: a feature is its source line trimmed, with only the leading bullet
\* glyph and the whitespace behind it removed.
C9_OnlyBulletRemoved ==
    [][(xf_pc = "loop" /\ features' # features) =>
          features'[Len(features')] = WithoutLeadingGlyph(lines[xf_k + 1])]_vars

\* the lines that qualify: bullet first after trimming, cleaned text longer
\* than 10 characters
Qualifying(ls) ==
    { k \in 1..Len(ls) :
        /\ Strip(ls[k]) # <<>>
        /\ Strip(ls[k])[1] \in {"BULLET", "-", "BLACK_CIRCLE", "WHITE_BULLET"}
        /\ Len(CleanFeature(ls[k])) > 10 }

Nth(S, j) == CHOOSE k \in S : Cardinality({ q \in S : q < k }) = j - 1

C12_EmptyTextGivesEmptyContainers ==
    /\ (xs_pc = "done" /\ xs_text = <<>>) =>
           xs_ret # None /\ DOMAIN xs_ret = {}
    /\ (xf_pc = "done" /\ xf_text = <<>>) =>
           xf_ret # None /\ Len(xf_ret) = 0
    /\ (xa_pc = "done" /\ xa_text = <<>>) =>
           xa_ret # None /\ Len(xa_ret) = 0

C12_Witness ==
    /\ xs_pc = "done"
    /\ xs_text = <<>>
    /\ xs_k = Len(SpecTypes)
    /\ DOMAIN xs_ret = {}

\* C13: for every volume and region, estimate_bom_cost on an empty sequence
\* of lines returns total_cost 0.0, cost_per_unit 0.0 and an empty list of
\* lines.
C13_EmptyBomCostsNothing ==
    (est_pc = "done" /\ components = <<>>) =>
        /\ est_ret.total_cost = 0
        /\ est_ret.cost_per_unit = 0
        /\ est_ret.components = <<>>
        /\ est_ret.volume = volume
        /\ est_ret.region = region

C13_Witness ==
    /\ est_pc = "done"
    /\ est_caller = "api"
    /\ components = <<>>
    /\ volume = 0
    /\ region = "US"
    /\ est_ret.total_cost = 0

\* C14: estimate_bom_cost does not reject, drop or clamp a line with a
\* negative unit_price or a zero or negative quantity, at any volume (0 and
\* below included): the iteration that reads such a line appends it with its
\* own quantity and price and with line_cost unit_price * factor * quantity
\* (reported to 4 decimals), adds exactly that product to the running total,
\* and the call returns as many lines as it was given.
C14_NoLineRejectedOrClamped ==
    /\ [](est_pc = "done" => Len(est_ret.components) = Len(components))
    /\ [][(est_pc = "loop" /\ est_pc' = "loop" /\ est_i' = est_i + 1) =>
            LET c == components[est_i']
            IN  (PriceOf(c) < 0 \/ QuantityOf(c) <= 0) =>
                   /\ Len(estimation'.components) = est_i'
                   /\ estimation'.components[est_i'].quantity = QuantityOf(c)
                   /\ IsRounded(estimation'.components[est_i'].unit_price,
                                PriceOf(c), 4)
                   /\ IsRounded(estimation'.components[est_i'].line_cost,
                                ExactLineCost(c, volume), 4)
                   /\ estimation'.total_cost =
                         estimation.total_cost + ExactLineCost(c, volume)]_vars

C14_Witness ==
    /\ est_pc = "done"
    /\ volume = 0
    /\ Len(components) = 3
    /\ PriceOf(components[1]) < 0
    /\ QuantityOf(components[2]) = 0
    /\ QuantityOf(components[3]) < 0
    /\ est_ret.components[1].line_cost < 0
    /\ est_ret.components[2].line_cost = 0
    /\ est_ret.components[3].line_cost < 0
    /\ est_ret.total_cost < 0

\* C15: in every result of estimate_bom_cost cost_per_unit equals
\* total_cost, whatever the volume.
C15_CostPerUnitIsTotalCost ==
    est_pc = "done" => est_ret.cost_per_unit = est_ret.total_cost

C15_Witness ==
    /\ est_pc = "done"
    /\ volume = 1000
    /\ est_ret.total_cost > 1000 * Pow10(5)
    /\ est_ret.cost_per_unit = est_ret.total_cost

\* C16: the currency of an estimate is "EUR" exactly when region is the
\* string "EU" (so "eu" gives "USD"), and "USD" for every other region.
C16_CurrencyFollowsRegion ==
    est_pc = "done" =>
        /\ est_ret.currency = "EUR" <=> region = "EU"
        /\ est_ret.currency = "USD" <=> region # "EU"

C16_Witness ==
    /\ est_pc = "done"
    /\ region = "eu"
    /\ est_ret.currency = "USD"

\* the part numbers of a set, in input order
PartNumbersOf(bom) ==
    [k \in 1..Len(bom) |->
        IF "part_number" \in DOMAIN bom[k] THEN bom[k].part_number ELSE None]

\* C17: compare_alternatives returns one entry per input set; the entry of
\* the set at input position N (from 1) is labelled "Option N" wherever the
\* sort has put it, lists the part numbers of that set in input order and
\* carries the total_cost of that set at the given volume.
C17_OneLabelledEntryPerAlternative ==
    cmp_pc = "done" =>
        LET alts == cmp_ret.alternatives
            n == Len(component_alternatives)
        IN  /\ Len(alts) = n
            /\ \A N \in 1..n :
                  \E k \in 1..n :
                     /\ alts[k].alternative = "Option " \o ToString(N)
                     /\ \A j \in 1..n :
                           alts[j].alternative = alts[k].alternative => j = k
                     /\ alts[k].components =
                           PartNumbersOf(component_alternatives[N])
                     /\ IsRounded(alts[k].total_cost,
                                  ExactTotal(component_alternatives[N],
                                             cmp_volume), 2)

C17_Witness ==
    /\ cmp_pc = "done"
    /\ Len(component_alternatives) = 3
    /\ component_alternatives[1] = TestAlternative
    /\ cmp_ret.alternatives[3].alternative = "Option 1"
    /\ cmp_ret.alternatives[3].components = <<"STM32H743", "Component_A">>
    /\ cmp_ret.alternatives[1].alternative = "Option 3"

\* a BOM line: its unit_price and quantity, where given, are numbers
IsBomLine(c) == ~IsNone(PriceOf(c)) /\ ~IsNone(QuantityOf(c))
AllBomLines(bom) == \A k \in 1..Len(bom) : IsBomLine(bom[k])

\* no call on a string or on BOM lines ends with an exception: the
\* estimator raises only on a line that is no BOM line, and the extraction
\* functions have no step that raises
NoExceptionPropagates ==
    /\ est_pc = "raised" => ~AllBomLines(components)
    /\ cmp_pc = "raised" =>
          \E k \in 1..Len(component_alternatives) :
             ~AllBomLines(component_alternatives[k])
    /\ (est_pc = "loop" /\ AllBomLines(components)) =>
          /\ est_i <= Len(components)
          /\ ~ENABLED EstimateRaise
    /\ (cmp_pc = "wait" /\ AllBomLines(component_alternatives[cmp_idx + 1])) =>
          ~ENABLED CompareRaise
    /\ xs_pc \in {"idle", "loop", "done"} /\ xs_k <= Len(SpecTypes)
    /\ xf_pc \in {"idle", "loop", "done"} /\ xf_k <= Len(lines)
    /\ xa_pc \in {"idle", "loop", "done"} /\ xa_k <= Len(app_keywords)

\* what a call returns is a mapping or a list
ResultsAreContainers ==
    /\ xs_pc = "done" => ~IsNone(xs_ret)
    /\ xf_pc = "done" => ~IsNone(xf_ret)
    /\ xa_pc = "done" => ~IsNone(xa_ret)
    /\ est_pc = "done" => ~IsNone(est_ret) /\ ~IsNone(est_ret.components)
    /\ cmp_pc = "done" => ~IsNone(cmp_ret) /\ ~IsNone(cmp_ret.alternatives)

\* C11 as stated: no call of the three extraction functions, of
\* estimate_bom_cost or of compare_alternatives lets an exception propagate,
\* for any string and any sequence of BOM lines, and absence of data is
\* reported only by empty containers: no result holds None in the place of
\* a value.
C11_AbsenceOnlyByEmptyContainers ==
    /\ NoExceptionPropagates
    /\ ResultsAreContainers
    /\ cmp_pc = "done" => ~IsNone(cmp_ret.best_option)
    /\ est_pc = "done" =>
          \A k \in 1..Len(est_ret.components) :
             ~IsNone(est_ret.components[k].part_number)

\* C11 amended: no call lets an exception propagate for any string and any
\* sequence of BOM lines, and every result is a container; None stands for
\* absent data in two places: best_option when there is no alternative, and
\* the part_number of a line given without one.
C11_TotalWithNoneForAbsentValues ==
    /\ NoExceptionPropagates
    /\ ResultsAreContainers
    /\ cmp_pc = "done" =>
          (IsNone(cmp_ret.best_option) <=> component_alternatives = <<>>)
    /\ est_pc = "done" =>
          /\ Len(est_ret.components) = Len(components)
          /\ \A k \in 1..Len(components) :
                IsNone(est_ret.components[k].part_number)
                   <=> "part_number" \notin DOMAIN components[k]

C11_Witness ==
    /\ cmp_pc = "done"
    /\ component_alternatives = <<>>
    /\ cmp_ret.alternatives = <<>>
    /\ IsNone(cmp_ret.best_option)

RECURSIVE SoloRun(_, _, _, _)
\* the dicts a call of estimate_bom_cost that runs alone can hold after k
\* lines
SoloRun(bom, vol, reg, k) ==
    IF k = 0 THEN { NewEstimation(vol, reg) }
    ELSE LET c == bom[k]
             d == DiscountedPrice(PriceOf(c), GetVolumeDiscount(vol))
         IN  { [e EXCEPT
                  !.components = Append(@,
                     [part_number |-> Get(c, "part_number", None),
                      quantity |-> QuantityOf(c),
                      unit_price |-> r[1],
                      discounted_price |-> r[2],
                      line_cost |-> r[3]]),
                  !.total_cost = @ + d * QuantityOf(c)] :
               e \in SoloRun(bom, vol, reg, k - 1),
               r \in Round(PriceOf(c), RoundDigits4) \X Round(d, RoundDigits4)
                        \X Round(d * QuantityOf(c), RoundDigits4) }

\* what the call can return when it runs alone
SoloEstimates(bom, vol, reg) ==
    UNION { { [e EXCEPT !.total_cost = t, !.cost_per_unit = t] :
                 t \in Round(e.total_cost, RoundDigits2) } :
            e \in SoloRun(bom, vol, reg, Len(bom)) }

RECURSIVE SoloSpecs(_, _)
\* what _extract_specifications returns alone, after k patterns
SoloSpecs(text, k) ==
    IF k = 0 THEN <<>>
    ELSE LET found == FindAll(spec_patterns[SpecTypes[k]], text)
         IN  IF found = <<>> THEN SoloSpecs(text, k - 1)
             ELSE (SpecTypes[k] :> Take(found, SpecCap)) @@ SoloSpecs(text, k - 1)

\* C18: calls on a shared CostEstimator or DatasheetParser are independent:
\* no step of any call changes the discount table, the pattern table or a
\* list passed as argument, and under every interleaving a call returns what
\* it returns when it runs alone on its arguments.
C18_CallsAreIndependent ==
    /\ [][/\ self_volume_discounts' = self_volume_discounts
          /\ self_spec_patterns' = self_spec_patterns
          /\ shared_boms' = shared_boms]_vars
    /\ [](\A t \in Threads :
            frames[t].pc = "done" =>
               /\ frames[t].op = "estimate" =>
                     frames[t].ret \in
                        SoloEstimates(SharedBoms[frames[t].bom],
                                      frames[t].volume, "EU")
               /\ frames[t].op = "extract" =>
                     /\ DOMAIN frames[t].ret =
                           DOMAIN SoloSpecs(frames[t].text, Len(SpecTypes))
                     /\ \A ty \in DOMAIN frames[t].ret :
                           frames[t].ret[ty] =
                              SoloSpecs(frames[t].text, Len(SpecTypes))[ty])

\* one call has returned while another call on the same list, at another
\* volume, is in the middle of its loop
C18_Witness ==
    /\ frames[1].pc = "done"
    /\ frames[1].op = "estimate"
    /\ frames[1].volume = 1000
    /\ frames[1].ret.total_cost > 0
    /\ frames[2].pc = "loop"
    /\ frames[2].op = "estimate"
    /\ frames[2].k = 1
    /\ frames[2].bom = frames[1].bom
    /\ frames[2].volume = 100

\* the market a name stands for when case is ignored
IgnoringCase(market) ==
    IF Lower(market) \in { <<"e", "u">>, <<"e", "u", "r", "o", "p", "e">> } THEN "EU"
    ELSE IF Lower(market) \in { <<"u", "s", "a">>, <<"u", "s">> } THEN "USA"
    ELSE IF Lower(market) \in { <<"c", "h", "i", "n", "a">>, <<"c", "n">> } THEN "China"
    ELSE "other"

\* what the claim asks of a market, and all that the code adds for it
Required(m) ==
    IF m = "EU" THEN {"CE Mark", "RoHS", "REACH"}
    ELSE IF m = "USA" THEN {"FCC Part 15"}
    ELSE IF m = "China" THEN {"CCC", "RoHS China"}
    ELSE {}
Added(m) == IF m = "USA" THEN {"FCC Part 15", "UL/ETL (optional)"} ELSE Required(m)

\* C19: check_compliance matches each target market ignoring case; the
\* returned required_certifications contain CE Mark, RoHS and REACH for a
\* market EU or EUROPE, FCC Part 15 for USA or US, CCC and RoHS China for
\* CHINA or CN, and a market that is none of these adds nothing: every
\* certification returned comes from a market of the list that is one of
\* them.
C19_CertificationsPerMarket ==
    chk_pc = "done" =>
        LET got == { chk_ret.required_certifications[k] :
                        k \in 1..Len(chk_ret.required_certifications) }
            named == { IgnoringCase(target_markets[k]) :
                          k \in 1..Len(target_markets) }
        IN  /\ \A m \in named : Required(m) \subseteq got
            /\ got \subseteq UNION { Added(m) : m \in named }

C19_Witness ==
    /\ chk_pc = "done"
    /\ target_markets = << <<"e", "u">>, <<"U", "K">> >>
    /\ Len(chk_ret.required_certifications) = 3
    /\ chk_ret.required_certifications[1] = "REACH"

\* C20: for any sequence of target markets, repeated and unrecognised ones
\* included, required_certifications holds no certification twice; for an
\* empty list of markets the certifications, the timelines and the costs
\* are all empty.
C20_NoCertificationTwice ==
    chk_pc = "done" =>
        /\ \A j \in 1..Len(chk_ret.required_certifications) :
              \A k \in 1..Len(chk_ret.required_certifications) :
                 chk_ret.required_certifications[j] =
                    chk_ret.required_certifications[k] => j = k
        /\ target_markets = <<>> =>
              /\ chk_ret.required_certifications = <<>>
              /\ DOMAIN chk_ret.estimated_timeline = {}
              /\ DOMAIN chk_ret.estimated_costs = {}

C20_Witness ==
    /\ chk_pc = "done"
    /\ target_markets = << <<"E", "u", "r", "o", "p", "e">>, <<"e", "u">> >>
    /\ chk_i = 2
    /\ Len(chk_ret.required_certifications) = 3
    /\ DOMAIN chk_ret.estimated_timeline = {"EU"}
\* the result with the region and the currency label of another region
Relabelled(est, reg) ==
    [est EXCEPT !.region = reg, !.currency = CurrencyFor(reg)]

\* C29: for the same lines and volume estimate_bom_cost returns the same
\* output lines, total_cost and cost_per_unit for every region: what a call
\* returns, relabelled with another region and that region's currency, is
\* what the call for that region returns; no amount is converted.
C29_AmountsIndependentOfRegion ==
    est_pc = "done" =>
        /\ est_ret \in SoloEstimates(components, volume, region)
        /\ \A reg \in Regions :
              Relabelled(est_ret, reg) \in SoloEstimates(components, volume, reg)
        /\ est_ret.region = region
        /\ est_ret.currency \in {"EUR", "USD"}

C29_Witness ==
    /\ est_pc = "done"
    /\ components = ExampleBom
    /\ volume = 1000
    /\ region = "US"
    /\ est_ret.currency = "USD"
    /\ est_ret.total_cost = 111800000
    /\ Relabelled(est_ret, "EU").currency = "EUR"

\* the line with the documented defaults filled in
WithDefaults(c) ==
    [part_number |-> IF "part_number" \in DOMAIN c THEN c.part_number ELSE None,
     unit_price |-> IF "unit_price" \in DOMAIN c THEN c.unit_price ELSE 0,
     quantity |-> IF "quantity" \in DOMAIN c THEN c.quantity ELSE 1]

RECURSIVE DefaultedTotal(_, _)
DefaultedTotal(bom, v) ==
    IF bom = <<>> THEN 0
    ELSE LET c == WithDefaults(Head(bom))
         IN  (c.unit_price \div 100) * StepDiscount(v) * c.quantity
                + DefaultedTotal(Tail(bom), v)

\* C30: a line that lacks unit_price is costed with unit_price 0.0, a line
\* that lacks quantity with quantity 1, and a line that lacks part_number is
\* reported with part_number None; a missing field never raises and never
\* makes the line be skipped.
C30_MissingFieldsTakeDefaults ==
    /\ est_pc = "raised" =>
          LET c == components[est_i + 1]
          IN  \/ "unit_price" \in DOMAIN c /\ IsNone(c.unit_price)
              \/ "quantity" \in DOMAIN c /\ IsNone(c.quantity)
    /\ est_pc \in {"loop", "done"} => Len(estimation.components) = est_i
    /\ est_pc = "done" =>
          /\ Len(est_ret.components) = Len(components)
          /\ IsRounded(est_ret.total_cost, DefaultedTotal(components, volume), 2)
          /\ \A k \in 1..Len(components) :
                LET c == components[k]
                    o == est_ret.components[k]
                IN  /\ "unit_price" \notin DOMAIN c =>
                          /\ o.unit_price = 0
                          /\ o.discounted_price = 0
                          /\ o.line_cost = 0
                    /\ "quantity" \notin DOMAIN c =>
                          /\ o.quantity = 1
                          /\ IsRounded(o.line_cost,
                                (WithDefaults(c).unit_price \div 100)
                                   * StepDiscount(volume), 4)
                    /\ "part_number" \notin DOMAIN c <=> IsNone(o.part_number)

C30_Witness ==
    /\ est_pc = "done"
    /\ Len(components) = 3
    /\ volume = 1000
    /\ DOMAIN components[1] = {"part_number", "quantity"}
    /\ DOMAIN components[2] = {"part_number", "unit_price"}
    /\ DOMAIN components[3] = {"unit_price", "quantity"}
    /\ est_ret.components[1].line_cost = 0
    /\ est_ret.components[2].quantity = 1
    /\ est_ret.components[2].line_cost = 9375000
    /\ IsNone(est_ret.components[3].part_number)
    /\ est_ret.total_cost = 574000000 \div 10

\* C21 as stated: for every list of components the components mapping
\* returned by check_availability has as many entries as the list given,
\* that number is summary.total_checked, and the region argument is returned
\* unchanged.
C21_OneEntryPerRequestedComponent ==
    avail_pc = "done" =>
        /\ Cardinality(DOMAIN avail_ret.components) = Len(avail_components)
        /\ avail_ret.summary.total_checked
              = Cardinality(DOMAIN avail_ret.components)
        /\ avail_ret.region = avail_region

\* the result is the placeholder for the query, whatever its search date
IsPlaceholder(ret, query) ==
    /\ ret.source = "Placeholder"
    /\ ret.query = query
    /\ Len(ret.patents) = 2
    /\ ret.patents[1].patent_id = "US-PLACEHOLDER-001"
    /\ ret.patents[2].patent_id = "US-PLACEHOLDER-002"
    /\ ret.total_found = Len(ret.patents)
    /\ "note" \in DOMAIN ret

\* C22: search_patents never raises, and every value it returns has the
\* keys patents, total_found and query, the query echoed; with no API key,
\* on a timeout, on any exception and on status 401 or 429 it returns the
\* placeholder result, whose total_found is the number of patents listed; on
\* any other status but 200 it returns an empty patents list with an error
\* field.
C22_SearchPatentsIsTotal ==
    /\ sp_pc # "raised"
    /\ sp_pc = "done" =>
          /\ {"patents", "total_found", "query"} \subseteq DOMAIN sp_ret
          /\ sp_ret.query = sp_query
          /\ (Falsy(self_api_key) \/ ~IsNone(sp_exc)
                 \/ ToString(sp_status) \in {"401", "429"})
                => IsPlaceholder(sp_ret, sp_query)
          /\ (~Falsy(self_api_key) /\ IsNone(sp_exc)
                 /\ ToString(sp_status) \notin {"200", "401", "429"})
                => /\ sp_ret.patents = <<>>
                   /\ "error" \in DOMAIN sp_ret
                   /\ ~IsPlaceholder(sp_ret, sp_query)
          /\ (IsNone(sp_exc) /\ ToString(sp_status) = "200")
                => /\ Len(sp_ret.patents) = Len(patents_data)
                   /\ sp_ret.source = "PatentsView"

\* a response with status 200 whose second patent has a null abstract: the
\* TypeError is caught and the placeholder returned
C22_Witness ==
    /\ sp_pc = "done"
    /\ ~Falsy(self_api_key)
    /\ ToString(sp_status) = "200"
    /\ ~IsNone(sp_exc)
    /\ sp_exc = "TypeError"
    /\ sp_k = 1
    /\ Len(results.patents) = 1
    /\ sp_query = "GaN power transistor"
    /\ IsPlaceholder(sp_ret, sp_query)
    /\ sp_ret.patents[1].title
          = "Advanced Technology Related to GaN power transistor"

\* the id, with case ignored, contains one of the words
Mentions(id, words) == \E w \in words : Contains(Lower(id), w)

McuWords == { <<"s", "t", "m", "3", "2">>,
              <<"e", "s", "p", "3", "2">>,
              <<"n", "r", "f">>,
              <<"m", "s", "p", "4", "3", "0">> }
PowerWords == { <<"t", "p", "s">>,
                <<"l", "m">>,
                <<"m", "a", "x">>,
                <<"l", "t">> }
SensorWords == { <<"b", "m", "e">>,
                 <<"b", "m", "p">>,
                 <<"m", "p", "u">>,
                 <<"l", "s", "m">> }

\* C23: _detect_component_type classifies an id without regard to case and
\* with fixed precedence: microcontroller if it contains STM32, ESP32, NRF
\* or MSP430; otherwise power_ic if it contains TPS, LM, MAX or LT; otherwise
\* sensor if it contains BME, BMP, MPU or LSM; otherwise unknown, also for
\* the empty id; the result is one of these four values.
C23_ClassifiedByPrecedence ==
    det_pc = "done" =>
        /\ det_ret \in {"microcontroller", "power_ic", "sensor", "unknown"}
        /\ det_ret = "microcontroller" <=> Mentions(component_id, McuWords)
        /\ det_ret = "power_ic" <=>
              /\ ~Mentions(component_id, McuWords)
              /\ Mentions(component_id, PowerWords)
        /\ det_ret = "sensor" <=>
              /\ ~Mentions(component_id, McuWords)
              /\ ~Mentions(component_id, PowerWords)
              /\ Mentions(component_id, SensorWords)
        /\ component_id = <<>> => det_ret = "unknown"

\* an id in lower case that names a regulator and a sensor: the regulator wins
C23_Witness ==
    /\ det_pc = "done"
    /\ component_id = <<"t", "p", "s", "b", "m", "p">>
    /\ det_ret = "power_ic"

\* the positions of complete() among the calls on the handler
Completions == { k \in 1..Len(handler_calls) : handler_calls[k].call = "complete" }
Errors == { k \in 1..Len(handler_calls) : handler_calls[k].call = "emit_error" }

\* the events that can have been emitted when a stage fails
EventsUpTo(stage) ==
    CASE stage = "query analysis" -> {"ANALYSIS"}
      [] stage = "research search" -> {"ANALYSIS", "QUERY_ANALYSIS", "RESEARCH"}
      [] stage = "component analysis" ->
            {"ANALYSIS", "QUERY_ANALYSIS", "RESEARCH", "SOURCES",
             "COMPONENT_ANALYSIS"}
      [] stage = "supply check" ->
            {"ANALYSIS", "QUERY_ANALYSIS", "RESEARCH", "SOURCES",
             "COMPONENT_ANALYSIS", "COMPONENTS", "SUPPLY_CHAIN"}
      [] stage = "answer generation" ->
            {"ANALYSIS", "QUERY_ANALYSIS", "RESEARCH", "SOURCES",
             "COMPONENT_ANALYSIS", "COMPONENTS", "SUPPLY_CHAIN",
             "SUPPLY_STATUS", "GENERATING", "FINAL_RESPONSE"}

\* C24: in every execution of assist, whether all stages succeed or a stage
\* raises, response_handler.complete() is called exactly once and is the
\* last call on the handler; when a stage raises, an ERROR event is emitted
\* before complete() and no stage event is emitted after the failure.
C24_CompleteOnceAndLast ==
    /\ [](as_pc # "done" => Completions = {})
    /\ [](as_pc = "done" =>
            /\ Completions = {Len(handler_calls)}
            /\ IF IsNone(as_failed)
               THEN Errors = {}
               ELSE /\ Errors = {Len(handler_calls) - 1}
                    /\ handler_calls[Len(handler_calls) - 1].name = "ERROR"
                    /\ \A k \in 1..(Len(handler_calls) - 2) :
                          handler_calls[k].name \in EventsUpTo(as_failed))
    /\ [][as_pc = "except" =>
            /\ Len(handler_calls') = Len(handler_calls) + 2
            /\ SubSeq(handler_calls', 1, Len(handler_calls)) = handler_calls
            /\ handler_calls'[Len(handler_calls) + 1].call = "emit_error"
            /\ handler_calls'[Len(handler_calls) + 2].call = "complete"]_vars

\* the answer generation raised after the first chunk
C24_Witness ==
    /\ as_pc = "done"
    /\ ~IsNone(as_failed)
    /\ as_failed = "answer generation"
    /\ as_chunks = 1
    /\ Len(handler_calls) >= 3
    /\ handler_calls[Len(handler_calls) - 2].call = "emit_chunk"
    /\ handler_calls[Len(handler_calls) - 1].call = "emit_error"
    /\ handler_calls[Len(handler_calls)].call = "complete"

\* what a call emits; create_text_stream emits nothing
Emits(c) == c.call # "create_text_stream"
EventName(c) ==
    CASE c.call = "stream.complete" -> "stream completion"
      [] c.call = "complete" -> "handler completion"
      [] OTHER -> c.name
EmittedEvents ==
    LET em == SelectSeq(handler_calls, Emits)
    IN  [k \in 1..Len(em) |-> EventName(em[k])]

\* the query contains the word, case ignored
SaysIgnoringCase(query, word) == Contains(Upper(query), Upper(word))

\* the order of events of a successful run
ExpectedEvents ==
    <<"ANALYSIS", "QUERY_ANALYSIS", "RESEARCH">>
    \o (IF Len(research_results.papers) >= 1 THEN <<"SOURCES">> ELSE <<>>)
    \o (IF /\ "components" \in DOMAIN query_analysis
           /\ ~IsNone(query_analysis.components)
           /\ Len(query_analysis.components) >= 1
        THEN <<"COMPONENT_ANALYSIS", "COMPONENTS">> ELSE <<>>)
    \o (IF \/ SaysIgnoringCase(user_query, <<"a", "v", "a", "i", "l", "a", "b", "i", "l", "i", "t", "y">>)
           \/ SaysIgnoringCase(user_query, <<"s", "u", "p", "p", "l", "y">>)
        THEN <<"SUPPLY_CHAIN", "SUPPLY_STATUS">> ELSE <<>>)
    \o <<"GENERATING">>
    \o [k \in 1..as_chunks |-> "FINAL_RESPONSE"]
    \o <<"stream completion", "handler completion">>

\* C28: on a successful run of assist the events are emitted in the order
\* ANALYSIS, QUERY_ANALYSIS, RESEARCH, SOURCES, COMPONENT_ANALYSIS,
\* COMPONENTS, SUPPLY_CHAIN, SUPPLY_STATUS, GENERATING, FINAL_RESPONSE chunks,
\* stream completion, handler completion, with SOURCES only if the research
\* returned a paper, COMPONENT_ANALYSIS and COMPONENTS only if the query
\* analysis lists a component, SUPPLY_CHAIN and SUPPLY_STATUS only if the
\* query contains "availability" or "supply", case ignored; no FINAL_RESPONSE
\* chunk is emitted before GENERATING.
C28_EventsInFixedOrder ==
    /\ (as_pc = "done" /\ IsNone(as_failed)) => EmittedEvents = ExpectedEvents
    /\ \A k \in 1..Len(handler_calls) :
          handler_calls[k].call = "emit_chunk" =>
             \E j \in 1..(k - 1) : handler_calls[j].name = "GENERATING"

\* a run with every optional event, for a query that says Supply
C28_Witness ==
    /\ as_pc = "done"
    /\ IsNone(as_failed)
    /\ user_query = <<"S", "u", "p", "p", "l", "y", " ", "o", "f", " ", "G", "a", "N">>
    /\ as_chunks = 2
    /\ EmittedEvents =
          <<"ANALYSIS", "QUERY_ANALYSIS", "RESEARCH", "SOURCES",
            "COMPONENT_ANALYSIS", "COMPONENTS", "SUPPLY_CHAIN",
            "SUPPLY_STATUS", "GENERATING", "FINAL_RESPONSE", "FINAL_RESPONSE",
            "stream completion", "handler completion">>

\* the with statement of the session has been left
Left(sess) == sess.pc \in {"returned", "raised"}

\* C26: every session handed out by get_session is closed exactly once
\* when its block exits, on every path; it is committed if and only if the
\* block ends without an exception, and otherwise it is rolled back and the
\* exception is re-raised to the caller; no session is left open, and none
\* is both successfully committed and rolled back.
C26_SessionClosedOnce ==
    \A s \in SessionIds :
       LET sess == sessions[s]
       IN  /\ sess.closes <= 1
           /\ sess.pc \in {"block", "commit", "except", "finally"} =>
                 sess.closes = 0
           /\ Left(sess) =>
                 /\ sess.closes = 1
                 /\ sess.commits = 1 <=> sess.exc # "BlockError"
                 /\ sess.commits <= 1
                 /\ sess.exc # "none" =>
                       /\ sess.rollbacks = 1
                       /\ sess.pc = "raised"
                 /\ sess.exc = "none" =>
                       /\ sess.committed
                       /\ sess.rollbacks = 0
                       /\ sess.pc = "returned"
           /\ ~(sess.committed /\ sess.rollbacks > 0)

\* one session left after a commit, one after an exception of its block,
\* while a third is still inside its block
C26_Witness ==
    /\ sessions[1].pc = "returned"
    /\ sessions[1].committed
    /\ sessions[1].closes = 1
    /\ sessions[2].pc = "raised"
    /\ sessions[2].exc = "BlockError"
    /\ sessions[2].rollbacks = 1
    /\ sessions[2].commits = 0
    /\ sessions[2].closes = 1
    /\ sessions[3].pc = "block"

\* the ids of the entries cached for a query
EntriesOf(table, query) ==
    { i \in 1..Len(table) : table[i].query_text = query }

\* caller c commits the transaction of a cache_response call in this step
CommitsCache(c) ==
    /\ cache_frames[c].op = "cache"
    /\ cache_frames[c].pc = "commit"
    /\ cache_frames'[c].pc = "done"

\* caller c runs the query of a get_cached_response call in this step
ReadsCache(c) ==
    /\ cache_frames[c].op = "get"
    /\ cache_frames[c].pc = "query"
    /\ cache_frames'[c].pc # "query"

ReadPages(doc) ==
    { k \in 1..Len(doc.pages) : k <= 10 }

\* the text extract_text() returns on page k, empty when it returns None
TextOf(doc, k) ==
    IF doc.pages[k].extract_text = "returns" THEN doc.pages[k].text ELSE <<>>

\* the matches of category t on page k, five at most
MatchesOn(doc, k, t) ==
    LET found == FindAll(spec_patterns[t], TextOf(doc, k))
    IN  SubSeq(found, 1, IF Len(found) < 5 THEN Len(found) ELSE 5)

\* the pages read that have a match of category t
PagesMatching(doc, t) ==
    { k \in ReadPages(doc) : MatchesOn(doc, k, t) # <<>> }

RECURSIVE TextsInOrder(_, _)
\* the texts of the first k pages, in page order, a newline after each
TextsInOrder(doc, k) ==
    IF k = 0 THEN <<>>
    ELSE IF TextOf(doc, k) = <<>> THEN TextsInOrder(doc, k - 1)
    ELSE TextsInOrder(doc, k - 1) \o TextOf(doc, k) \o <<"\n">>

\* the result is an error entry and nothing else
OnlyError(ret) == DOMAIN ret = {"error"}

\* C27: parse_pdf_datasheet reads at most the first 10 pages, in page
\* order; the values of a specification category are the (at most 5)
\* matches of the last page read that has a match of the category, a later
\* page replacing an earlier one; features and applications are those of the
\* page at index 0; and when an exception is raised the result is an error
\* entry alone, without the data of the pages read before.
C27_FirstTenPagesLastMatchWins ==
    pdf_pc = "done" =>
       IF \E k \in ReadPages(pdf) : pdf.pages[k].extract_text = "raises"
       THEN OnlyError(pdf_ret)
       ELSE IF "error" \in DOMAIN pdf_ret
       THEN OnlyError(pdf_ret) /\ pdf = NoPdf
       ELSE /\ DOMAIN pdf_ret =
                  {"specifications", "features", "applications", "raw_text"}
            /\ pdf_ret.raw_text =
                  TextsInOrder(pdf, Cardinality(ReadPages(pdf)))
            /\ \A n \in 1..Len(SpecTypes) :
                  LET t == SpecTypes[n]
                      with == PagesMatching(pdf, t)
                  IN  with # {} =>
                         /\ t \in DOMAIN pdf_ret.specifications
                         /\ pdf_ret.specifications[t]
                               = MatchesOn(pdf, Max(with), t)
            /\ pdf_ret.features =
                  IF pdf.pages = <<>> THEN <<>>
                  ELSE ExtractedFeatures(TextOf(pdf, 1))
            /\ pdf_ret.applications =
                  IF pdf.pages = <<>> THEN <<>>
                  ELSE ExtractedApplications(TextOf(pdf, 1))

\* a datasheet of eleven pages has been parsed: features, an application
\* and one voltage on the first page, six voltages on the tenth and another
\* voltage on the eleventh; the result has the first five voltages of the
\* tenth page
C27_Witness ==
    /\ pdf_pc = "done"
    /\ Len(pdf.pages) = 11
    /\ pdf.pages[1] = FeaturePage
    /\ pdf.pages[2] = PlainPage
    /\ pdf.pages[10] = SixVoltagesPage
    /\ pdf.pages[11] = VoltagePage
    /\ "error" \notin DOMAIN pdf_ret
    /\ pdf_ret.specifications["voltage"]
          = << <<"1">>, <<"2">>, <<"3">>, <<"4">>, <<"5">> >>
    /\ pdf_ret.features # <<>>
    /\ pdf_ret.applications # <<>>

====
